---- MODULE Spec2Model ----
(***************************************************************************)
(* A model of the Waifu interpreter: the resolver pass (lexical depths),   *)
(* the tree-walking evaluator with its frame chain, classes and bound      *)
(* methods, and the module manager.  Programs are abstract syntax trees;   *)
(* the evaluator is a set of recursive operators, one per visit_ method,   *)
(* and one action executes one top-level statement.                        *)
(***************************************************************************)
EXTENDS Integers, Sequences, FiniteSets, TLC

(***************************************************************************)
(* Bounds of the model.                                                    *)
(***************************************************************************)
\* number of statements drawn from the menu for a script
ProgLen == 2
\* iterations a while loop may take before the model stops unrolling it
MaxIter == 3
\* classes of a drawn class hierarchy
NumCls == 4
\* superclasses a class of a drawn hierarchy declares
MaxSupers == 2
\* import statements per module file
MaxImports == 2
\* lines of an input text of the lexer
MaxLines == 3
\* spaces before the first character of a line
MaxIndent == 2
\* runs of tokens in a token list of the parser
MaxPhrases == 3
\* the drawn parameter and argument lists have up to MaxExtra entries less
\* and more than the limit
MaxExtra == 2

(***************************************************************************)
(* Runtime values.  A value is a record of a tag t, a number or heap index *)
(* v and a text s.  Numbers are the integer-valued floats.                 *)
(***************************************************************************)
Nil == [t |-> "nil", v |-> 0, s |-> ""]
Bool(b) == [t |-> "bool", v |-> IF b THEN 1 ELSE 0, s |-> ""]
Num(n) == [t |-> "num", v |-> n, s |-> ""]
Str(x) == [t |-> "str", v |-> 0, s |-> x]
Fun(i) == [t |-> "fun", v |-> i, s |-> ""]
Cls(i) == [t |-> "cls", v |-> i, s |-> ""]
Obj(i) == [t |-> "obj", v |-> i, s |-> ""]
Host(x) == [t |-> "host", v |-> 0, s |-> x]
\* the list of superclass objects bound to haha: the super_cls list of class i
Supers(i) == [t |-> "supers", v |-> i, s |-> ""]
\* no binding of a name in a frame, no such field
Unbound == [t |-> "unbound", v |-> 0, s |-> ""]

\* Python's == on the values: bool is a subtype of int, so False == 0.0
PyEq(x, y) ==
  IF x.t \in {"bool", "num"} /\ y.t \in {"bool", "num"} THEN x.v = y.v ELSE x = y

\* Python's truth value (bool(x)), which `not value` applies
PyTruth(x) ==
  CASE x.t = "nil" -> FALSE
    [] x.t \in {"bool", "num"} -> x.v # 0
    [] x.t = "str" -> x.s # ""
    [] OTHER -> TRUE

\* the literal values a source text can denote that the scripts draw from
LiteralValues ==
  {Nil, Bool(FALSE), Bool(TRUE), Num(0), Num(1), Str(""), Str("s")}

(***************************************************************************)
(* Tokens.  Token.__eq__ answers False for anything that is not a Token.   *)
(***************************************************************************)
Token(type, value) == [isToken |-> TRUE, type |-> type, value |-> value]
TokenType(type) == [isToken |-> FALSE, type |-> type, value |-> ""]
Token_eq(self, object) ==
  object.isToken /\ self.value = object.value /\ self.type = object.type

(***************************************************************************)
(* Abstract syntax.  A node is a record; the tree is the table AST from    *)
(* node ids to nodes, kids holding the ids of the children.                *)
(***************************************************************************)
Node(k, name, kids) ==
  [k |-> k, name |-> name, kids |-> kids, flag |-> FALSE, lit |-> Nil,
   params |-> <<>>, sup |-> <<>>, dec |-> 0]
Literal(v) == [Node("Literal", "", <<>>) EXCEPT !.lit = v]
VarAccess(name) == Node("VarAccess", name, <<>>)
AssStmt(new_var, name, e) == [Node("AssStmt", name, <<e>>) EXCEPT !.flag = new_var]
Assign(new_var, name, e) == [Node("Assign", name, <<e>>) EXCEPT !.flag = new_var]
SetProperty(obj, name, value) == Node("SetProperty", name, <<obj, value>>)
PropertyAccess(obj, name) == Node("PropertyAccess", name, <<obj>>)
CallExpr(callee, args) == Node("CallExpr", "", <<callee>> \o args)
ObjRef == Node("ObjRef", "watashi", <<>>)
SuperRef(name) == Node("SuperRef", name, <<>>)
LogicalExpr(l, op, r) == Node("LogicalExpr", op, <<l, r>>)
BinaryExpr(l, op, r) == Node("BinaryExpr", op, <<l, r>>)
UnaryExpr(op, r) == Node("UnaryExpr", op, <<r>>)
GroupingExpr(e) == Node("GroupingExpr", "", <<e>>)
ExprStmt(e) == Node("ExprStmt", "", <<e>>)
BlockStmt(stmts) == Node("BlockStmt", "", stmts)
IfStmt(c, then, other) == Node("IfStmt", "", <<c, then, other>>)
WhileStmt(c, body) == Node("WhileStmt", "", <<c, body>>)
BreakStmt == Node("BreakStmt", "", <<>>)
ContinueStmt == Node("ContinueStmt", "", <<>>)
ReturnStmt(e) == Node("ReturnStmt", "", <<e>>)
FunctionDecl(dec, name, params, body, static) ==
  [Node("FunctionDecl", name, body) EXCEPT !.params = params, !.flag = static, !.dec = dec]
ClassDecl(name, supercls, methods) ==
  [Node("ClassDecl", name, methods) EXCEPT !.sup = supercls]

(***************************************************************************)
(* The programs.  An object script is a fixed prelude (three classes, a    *)
(* counter factory, two instances, two counters), ProgLen different        *)
(* statements of Menu, and a last statement that reads every global.  A   *)
(* logic script applies or, and, if, not and while to two drawn literals.  *)
(*                                                                         *)
(*   waifu A:                     waifu M:                                 *)
(*     desu shison(x):              desu m():                              *)
(*       watashi.x <- x               shinu 2                              *)
(*     desu m():                    desu k():                              *)
(*       shinu 1                      yandere true:                        *)
(*     desu who():                      nani true:                         *)
(*       shinu watashi                    shinu 7                          *)
(*   waifu B neesan A, M:             shinu 8                              *)
(*     desu m():                  desu mk():                               *)
(*       shinu haha.m               baka c <- 0                            *)
(*     desu sk():                   desu inc():                            *)
(*       shinu haha.k                 c <- c + 1                           *)
(*   o <- A(1)                        shinu c                              *)
(*   p <- B()                       shinu inc                              *)
(*   f <- mk()                                                             *)
(*   g <- mk()                                                             *)
(***************************************************************************)
PreludeAST ==
     (10 :> ClassDecl("A", <<>>, <<11, 15, 18>>))
  @@ (11 :> FunctionDecl(0, "shison", <<"x">>, <<12>>, FALSE))
  @@ (12 :> SetProperty(13, "x", 14))
  @@ (13 :> ObjRef)
  @@ (14 :> VarAccess("x"))
  @@ (15 :> FunctionDecl(0, "m", <<>>, <<16>>, FALSE))
  @@ (16 :> ReturnStmt(17))
  @@ (17 :> Literal(Num(1)))
  @@ (18 :> FunctionDecl(0, "who", <<>>, <<19>>, FALSE))
  @@ (19 :> ReturnStmt(20))
  @@ (20 :> ObjRef)
  @@ (25 :> ClassDecl("M", <<>>, <<26, 29>>))
  @@ (26 :> FunctionDecl(0, "m", <<>>, <<27>>, FALSE))
  @@ (27 :> ReturnStmt(28))
  @@ (28 :> Literal(Num(2)))
  @@ (29 :> FunctionDecl(0, "k", <<>>, <<30, 36>>, FALSE))
  @@ (30 :> WhileStmt(31, 32))
  @@ (31 :> Literal(Bool(TRUE)))
  @@ (32 :> BlockStmt(<<33>>))
  @@ (33 :> IfStmt(34, 35, 0))
  @@ (34 :> Literal(Bool(TRUE)))
  @@ (35 :> BlockStmt(<<37>>))
  @@ (36 :> ReturnStmt(39))
  @@ (37 :> ReturnStmt(38))
  @@ (38 :> Literal(Num(7)))
  @@ (39 :> Literal(Num(8)))
  @@ (40 :> ClassDecl("B", <<41, 42>>, <<43, 46>>))
  @@ (41 :> VarAccess("A"))
  @@ (42 :> VarAccess("M"))
  @@ (43 :> FunctionDecl(0, "m", <<>>, <<44>>, FALSE))
  @@ (44 :> ReturnStmt(45))
  @@ (45 :> SuperRef("m"))
  @@ (46 :> FunctionDecl(0, "sk", <<>>, <<47>>, FALSE))
  @@ (47 :> ReturnStmt(48))
  @@ (48 :> SuperRef("k"))
  @@ (50 :> FunctionDecl(0, "mk", <<>>, <<51, 53, 59>>, FALSE))
  @@ (51 :> AssStmt(TRUE, "c", 52))
  @@ (52 :> Literal(Num(0)))
  @@ (53 :> FunctionDecl(0, "inc", <<>>, <<54, 58>>, FALSE))
  @@ (54 :> AssStmt(FALSE, "c", 55))
  @@ (55 :> BinaryExpr(56, "PLUS", 57))
  @@ (56 :> VarAccess("c"))
  @@ (57 :> Literal(Num(1)))
  @@ (58 :> ReturnStmt(61))
  @@ (59 :> ReturnStmt(62))
  @@ (61 :> VarAccess("c"))
  @@ (62 :> VarAccess("inc"))
  @@ (65 :> AssStmt(FALSE, "o", 66))
  @@ (66 :> CallExpr(67, <<68>>))
  @@ (67 :> VarAccess("A"))
  @@ (68 :> Literal(Num(1)))
  @@ (70 :> AssStmt(FALSE, "p", 71))
  @@ (71 :> CallExpr(72, <<>>))
  @@ (72 :> VarAccess("B"))
  @@ (75 :> AssStmt(FALSE, "f", 76))
  @@ (76 :> CallExpr(77, <<>>))
  @@ (77 :> VarAccess("mk"))
  @@ (80 :> AssStmt(FALSE, "g", 81))
  @@ (81 :> CallExpr(82, <<>>))
  @@ (82 :> VarAccess("mk"))
Prelude == <<10, 25, 40, 50, 65, 70, 75, 80>>

(***************************************************************************)
(*   100: r <- f()          105: r <- g()        110: o.h <- f             *)
(*   115: r <- o.h()        120: o.h <- p.m      125: r <- p.m()           *)
(*   130: r <- p.sk()()     135: r <- o.who()                              *)
(*   140: yandere true:                                                    *)
(*          desu brk():                                                    *)
(*            yamero                                                       *)
(*          brk()                                                          *)
(*          o.z <- 5                                                       *)
(*          yamero                                                         *)
(*   152: yandere f() < MaxIter:                                           *)
(*          kowai                                                          *)
(*   160: f = g = o = p = r                                                *)
(***************************************************************************)
MenuAST ==
     (100 :> AssStmt(FALSE, "r", 101))
  @@ (101 :> CallExpr(102, <<>>))
  @@ (102 :> VarAccess("f"))
  @@ (105 :> AssStmt(FALSE, "r", 106))
  @@ (106 :> CallExpr(107, <<>>))
  @@ (107 :> VarAccess("g"))
  @@ (110 :> SetProperty(111, "h", 112))
  @@ (111 :> VarAccess("o"))
  @@ (112 :> VarAccess("f"))
  @@ (115 :> AssStmt(FALSE, "r", 116))
  @@ (116 :> CallExpr(117, <<>>))
  @@ (117 :> PropertyAccess(118, "h"))
  @@ (118 :> VarAccess("o"))
  @@ (120 :> SetProperty(121, "h", 122))
  @@ (121 :> VarAccess("o"))
  @@ (122 :> PropertyAccess(123, "m"))
  @@ (123 :> VarAccess("p"))
  @@ (125 :> AssStmt(FALSE, "r", 126))
  @@ (126 :> CallExpr(127, <<>>))
  @@ (127 :> PropertyAccess(128, "m"))
  @@ (128 :> VarAccess("p"))
  @@ (130 :> AssStmt(FALSE, "r", 131))
  @@ (131 :> CallExpr(132, <<>>))
  @@ (132 :> CallExpr(133, <<>>))
  @@ (133 :> PropertyAccess(134, "sk"))
  @@ (134 :> VarAccess("p"))
  @@ (135 :> AssStmt(FALSE, "r", 136))
  @@ (136 :> CallExpr(137, <<>>))
  @@ (137 :> PropertyAccess(138, "who"))
  @@ (138 :> VarAccess("o"))
  @@ (140 :> WhileStmt(141, 142))
  @@ (141 :> Literal(Bool(TRUE)))
  @@ (142 :> BlockStmt(<<143, 145, 148, 151>>))
  @@ (143 :> FunctionDecl(0, "brk", <<>>, <<144>>, FALSE))
  @@ (144 :> BreakStmt)
  @@ (145 :> ExprStmt(146))
  @@ (146 :> CallExpr(147, <<>>))
  @@ (147 :> VarAccess("brk"))
  @@ (148 :> SetProperty(149, "z", 150))
  @@ (149 :> VarAccess("o"))
  @@ (150 :> Literal(Num(5)))
  @@ (151 :> BreakStmt)
  @@ (152 :> WhileStmt(153, 157))
  @@ (153 :> BinaryExpr(154, "LESS", 156))
  @@ (154 :> CallExpr(155, <<>>))
  @@ (155 :> VarAccess("f"))
  @@ (156 :> Literal(Num(MaxIter)))
  @@ (157 :> BlockStmt(<<158>>))
  @@ (158 :> ContinueStmt)
  @@ (160 :> ExprStmt(161))
  @@ (161 :> BinaryExpr(162, "EQUAL", 163))
  @@ (162 :> BinaryExpr(164, "EQUAL", 165))
  @@ (163 :> VarAccess("r"))
  @@ (164 :> BinaryExpr(166, "EQUAL", 167))
  @@ (165 :> VarAccess("p"))
  @@ (166 :> BinaryExpr(168, "EQUAL", 169))
  @@ (167 :> VarAccess("o"))
  @@ (168 :> VarAccess("f"))
  @@ (169 :> VarAccess("g"))
Menu == {100, 105, 110, 115, 120, 125, 130, 135, 140, 152}
Epilogue == <<160>>

(***************************************************************************)
(*   200: a <- (first literal)     203: b <- (second literal)              *)
(*   206: r <- a or b              211: s <- a and b                       *)
(*   216: t <- 0                                                           *)
(*   219: nani a:                  228: u <- not a                         *)
(*          t <- 1                 232: w <- 0                             *)
(*        daijobu:                 235: yandere a:                         *)
(*          t <- 2                        w <- 1                           *)
(*   250: r = s = t = u = w               yamero                           *)
(***************************************************************************)
LogicAST ==
     (200 :> AssStmt(FALSE, "a", 201))
  @@ (201 :> Literal(Nil))
  @@ (203 :> AssStmt(FALSE, "b", 204))
  @@ (204 :> Literal(Nil))
  @@ (206 :> AssStmt(FALSE, "r", 207))
  @@ (207 :> LogicalExpr(208, "OR", 209))
  @@ (208 :> VarAccess("a"))
  @@ (209 :> VarAccess("b"))
  @@ (211 :> AssStmt(FALSE, "s", 212))
  @@ (212 :> LogicalExpr(213, "AND", 214))
  @@ (213 :> VarAccess("a"))
  @@ (214 :> VarAccess("b"))
  @@ (216 :> AssStmt(FALSE, "t", 217))
  @@ (217 :> Literal(Num(0)))
  @@ (219 :> IfStmt(220, 221, 224))
  @@ (220 :> VarAccess("a"))
  @@ (221 :> BlockStmt(<<222>>))
  @@ (222 :> AssStmt(FALSE, "t", 223))
  @@ (223 :> Literal(Num(1)))
  @@ (224 :> BlockStmt(<<225>>))
  @@ (225 :> AssStmt(FALSE, "t", 226))
  @@ (226 :> Literal(Num(2)))
  @@ (228 :> AssStmt(FALSE, "u", 229))
  @@ (229 :> UnaryExpr("NOT", 230))
  @@ (230 :> VarAccess("a"))
  @@ (232 :> AssStmt(FALSE, "w", 233))
  @@ (233 :> Literal(Num(0)))
  @@ (235 :> WhileStmt(236, 237))
  @@ (236 :> VarAccess("a"))
  @@ (237 :> BlockStmt(<<238, 240>>))
  @@ (238 :> AssStmt(FALSE, "w", 239))
  @@ (239 :> Literal(Num(1)))
  @@ (240 :> BreakStmt)
  @@ (250 :> ExprStmt(251))
  @@ (251 :> BinaryExpr(252, "EQUAL", 253))
  @@ (252 :> BinaryExpr(254, "EQUAL", 255))
  @@ (253 :> VarAccess("w"))
  @@ (254 :> BinaryExpr(256, "EQUAL", 257))
  @@ (255 :> VarAccess("u"))
  @@ (256 :> BinaryExpr(258, "EQUAL", 259))
  @@ (257 :> VarAccess("t"))
  @@ (258 :> VarAccess("r"))
  @@ (259 :> VarAccess("s"))
LogicScript == <<200, 203, 206, 211, 216, 219, 228, 232, 235, 250>>

(***************************************************************************)
(* The value scripts, over two drawn literals A and B:                     *)
(*   300: x <- y <- A       315: v <- A + B        310: print(A)           *)
(*   305: x <- y <- B       325: v                                         *)
(*   320: x = y                                                            *)
(***************************************************************************)
ValueAST ==
     (300 :> AssStmt(FALSE, "x", 301))
  @@ (301 :> Assign(FALSE, "y", 302))
  @@ (302 :> Literal(Nil))
  @@ (305 :> AssStmt(FALSE, "x", 306))
  @@ (306 :> Assign(FALSE, "y", 307))
  @@ (307 :> Literal(Nil))
  @@ (310 :> ExprStmt(311))
  @@ (311 :> CallExpr(312, <<313>>))
  @@ (312 :> VarAccess("print"))
  @@ (313 :> Literal(Nil))
  @@ (315 :> AssStmt(FALSE, "v", 316))
  @@ (316 :> BinaryExpr(317, "PLUS", 318))
  @@ (317 :> Literal(Nil))
  @@ (318 :> Literal(Nil))
  @@ (320 :> ExprStmt(321))
  @@ (321 :> BinaryExpr(322, "EQUAL", 323))
  @@ (322 :> VarAccess("x"))
  @@ (323 :> VarAccess("y"))
  @@ (325 :> ExprStmt(326))
  @@ (326 :> VarAccess("v"))
ChainScript == <<300, 305, 320>>
PlusScript == <<315, 325>>
PrintScript == <<310>>
ValueScripts == {ChainScript, PlusScript, PrintScript}

(***************************************************************************)
(* Scripts in which an addition of two drawn literals is evaluated inside  *)
(* a block, inside a function call, and inside the body of a loop.         *)
(*   330: nani true:       340: desu f():        350: yandere true:        *)
(*          v <- A + B            v <- A + B             v <- A + B        *)
(*          v                     v                      v                 *)
(*                         347: f()                      yamero            *)
(***************************************************************************)
FrameAST ==
     (330 :> IfStmt(331, 332, 0))
  @@ (331 :> Literal(Bool(TRUE)))
  @@ (332 :> BlockStmt(<<333, 337>>))
  @@ (333 :> AssStmt(FALSE, "v", 334))
  @@ (334 :> BinaryExpr(335, "PLUS", 336))
  @@ (335 :> Literal(Nil))
  @@ (336 :> Literal(Nil))
  @@ (337 :> ExprStmt(338))
  @@ (338 :> VarAccess("v"))
  @@ (340 :> FunctionDecl(0, "f", <<>>, <<341, 345>>, FALSE))
  @@ (341 :> AssStmt(FALSE, "v", 342))
  @@ (342 :> BinaryExpr(343, "PLUS", 344))
  @@ (343 :> Literal(Nil))
  @@ (344 :> Literal(Nil))
  @@ (345 :> ExprStmt(346))
  @@ (346 :> VarAccess("v"))
  @@ (347 :> ExprStmt(348))
  @@ (348 :> CallExpr(349, <<>>))
  @@ (349 :> VarAccess("f"))
  @@ (350 :> WhileStmt(351, 352))
  @@ (351 :> Literal(Bool(TRUE)))
  @@ (352 :> BlockStmt(<<353, 357, 359>>))
  @@ (353 :> AssStmt(FALSE, "v", 354))
  @@ (354 :> BinaryExpr(355, "PLUS", 356))
  @@ (355 :> Literal(Nil))
  @@ (356 :> Literal(Nil))
  @@ (357 :> ExprStmt(358))
  @@ (358 :> VarAccess("v"))
  @@ (359 :> BreakStmt)
BlockScript == <<330>>
CallScript == <<340, 347>>
LoopScript == <<350>>
FrameScripts == {BlockScript, CallScript, LoopScript}

(***************************************************************************)
(* The statements of the resolver scripts.                                 *)
(*   400: x <- 1                    405: baka x <- 2                       *)
(*   410: nani true:                420: yandere baito:                    *)
(*          baka x <- x                    x <- 3                          *)
(*          x                              baka x <- 4                     *)
(*   430: desu f(x):                       x                               *)
(*          baka x <- x             440: desu g():                         *)
(*   450: waifu A:                         baka x <- 1                     *)
(*          desu m():                      nani true:                      *)
(*            baka x <- x                    baka x <- x                   *)
(*          desu k(x):                       x                             *)
(*            baka x <- 1                                                  *)
(***************************************************************************)
ScopeAST ==
     (400 :> AssStmt(FALSE, "x", 401))
  @@ (401 :> Literal(Num(1)))
  @@ (405 :> AssStmt(TRUE, "x", 406))
  @@ (406 :> Literal(Num(2)))
  @@ (410 :> IfStmt(411, 412, 0))
  @@ (411 :> Literal(Bool(TRUE)))
  @@ (412 :> BlockStmt(<<413, 415>>))
  @@ (413 :> AssStmt(TRUE, "x", 414))
  @@ (414 :> VarAccess("x"))
  @@ (415 :> ExprStmt(416))
  @@ (416 :> VarAccess("x"))
  @@ (420 :> WhileStmt(421, 422))
  @@ (421 :> Literal(Nil))
  @@ (422 :> BlockStmt(<<423, 425, 427>>))
  @@ (423 :> AssStmt(FALSE, "x", 424))
  @@ (424 :> Literal(Num(3)))
  @@ (425 :> AssStmt(TRUE, "x", 426))
  @@ (426 :> Literal(Num(4)))
  @@ (427 :> ExprStmt(428))
  @@ (428 :> VarAccess("x"))
  @@ (430 :> FunctionDecl(0, "f", <<"x">>, <<431>>, FALSE))
  @@ (431 :> AssStmt(TRUE, "x", 432))
  @@ (432 :> VarAccess("x"))
  @@ (440 :> FunctionDecl(0, "g", <<>>, <<441, 443>>, FALSE))
  @@ (441 :> AssStmt(TRUE, "x", 442))
  @@ (442 :> Literal(Num(1)))
  @@ (443 :> IfStmt(444, 445, 0))
  @@ (444 :> Literal(Bool(TRUE)))
  @@ (445 :> BlockStmt(<<446, 448>>))
  @@ (446 :> AssStmt(TRUE, "x", 447))
  @@ (447 :> VarAccess("x"))
  @@ (448 :> ExprStmt(449))
  @@ (449 :> VarAccess("x"))
  @@ (450 :> ClassDecl("A", <<>>, <<451, 455>>))
  @@ (451 :> FunctionDecl(0, "m", <<>>, <<452>>, FALSE))
  @@ (452 :> AssStmt(TRUE, "x", 453))
  @@ (453 :> VarAccess("x"))
  @@ (455 :> FunctionDecl(0, "k", <<"x">>, <<456>>, FALSE))
  @@ (456 :> AssStmt(TRUE, "x", 457))
  @@ (457 :> Literal(Num(1)))
ScopeMenu == {400, 405, 410, 420, 430, 440, 450}

(***************************************************************************)
(*   460: y <- 0          462: y <- 2          465: x <- y <- 1            *)
(*   470: y               472: x                                           *)
(*   475: desu h(v):      480: desu p(v):      485: nani true:             *)
(*          y <- v               x <- 1               baka y <- 1          *)
(***************************************************************************)
UnusedAST ==
     (460 :> AssStmt(FALSE, "y", 461))
  @@ (461 :> Literal(Num(0)))
  @@ (462 :> AssStmt(FALSE, "y", 463))
  @@ (463 :> Literal(Num(2)))
  @@ (465 :> AssStmt(FALSE, "x", 466))
  @@ (466 :> Assign(FALSE, "y", 467))
  @@ (467 :> Literal(Num(1)))
  @@ (470 :> ExprStmt(471))
  @@ (471 :> VarAccess("y"))
  @@ (472 :> ExprStmt(473))
  @@ (473 :> VarAccess("x"))
  @@ (475 :> FunctionDecl(0, "h", <<"v">>, <<476>>, FALSE))
  @@ (476 :> AssStmt(FALSE, "y", 477))
  @@ (477 :> VarAccess("v"))
  @@ (480 :> FunctionDecl(0, "p", <<"v">>, <<481>>, FALSE))
  @@ (481 :> AssStmt(FALSE, "x", 482))
  @@ (482 :> Literal(Num(1)))
  @@ (485 :> IfStmt(486, 487, 0))
  @@ (486 :> Literal(Bool(TRUE)))
  @@ (487 :> BlockStmt(<<488>>))
  @@ (488 :> AssStmt(TRUE, "y", 489))
  @@ (489 :> Literal(Num(1)))
UnusedMenu == {460, 462, 465, 470, 472, 475, 480, 485}

(***************************************************************************)
(*   500: shinu 1         503: shinu                                       *)
(*   505: desu q():       510: desu r():       535: desu t():              *)
(*          shinu 1              shinu                desu s():            *)
(*   515: waifu B:        525: waifu M:                 shinu 1            *)
(*          desu shison():       desu shison():       shinu 2              *)
(*            shinu 1              shinu                                   *)
(*          desu m():     530: waifu A:        545: waifu B:               *)
(*            shinu 1            desu shison():       desu m():            *)
(*                                 desu s():            desu s():          *)
(*                                   shinu 1              shinu            *)
(*                                 shinu 2              shinu 1            *)
(***************************************************************************)
ReturnAST ==
     (500 :> ReturnStmt(501))
  @@ (501 :> Literal(Num(1)))
  @@ (503 :> ReturnStmt(0))
  @@ (505 :> FunctionDecl(0, "q", <<>>, <<506>>, FALSE))
  @@ (506 :> ReturnStmt(507))
  @@ (507 :> Literal(Num(1)))
  @@ (510 :> FunctionDecl(0, "r", <<>>, <<511>>, FALSE))
  @@ (511 :> ReturnStmt(0))
  @@ (515 :> ClassDecl("B", <<>>, <<516, 520>>))
  @@ (516 :> FunctionDecl(0, "shison", <<>>, <<517>>, FALSE))
  @@ (517 :> ReturnStmt(518))
  @@ (518 :> Literal(Num(1)))
  @@ (520 :> FunctionDecl(0, "m", <<>>, <<521>>, FALSE))
  @@ (521 :> ReturnStmt(522))
  @@ (522 :> Literal(Num(1)))
  @@ (525 :> ClassDecl("M", <<>>, <<526>>))
  @@ (526 :> FunctionDecl(0, "shison", <<>>, <<527>>, FALSE))
  @@ (527 :> ReturnStmt(0))
  @@ (530 :> ClassDecl("A", <<>>, <<531>>))
  @@ (531 :> FunctionDecl(0, "shison", <<>>, <<532, 536>>, FALSE))
  @@ (532 :> FunctionDecl(0, "s", <<>>, <<533>>, FALSE))
  @@ (533 :> ReturnStmt(534))
  @@ (534 :> Literal(Num(1)))
  @@ (536 :> ReturnStmt(537))
  @@ (537 :> Literal(Num(2)))
  @@ (535 :> FunctionDecl(0, "t", <<>>, <<538, 540>>, FALSE))
  @@ (538 :> FunctionDecl(0, "s", <<>>, <<539>>, FALSE))
  @@ (539 :> ReturnStmt(541))
  @@ (541 :> Literal(Num(1)))
  @@ (540 :> ReturnStmt(542))
  @@ (542 :> Literal(Num(2)))
  @@ (545 :> ClassDecl("B", <<>>, <<546>>))
  @@ (546 :> FunctionDecl(0, "m", <<>>, <<547, 549>>, FALSE))
  @@ (547 :> FunctionDecl(0, "s", <<>>, <<548>>, FALSE))
  @@ (548 :> ReturnStmt(0))
  @@ (549 :> ReturnStmt(550))
  @@ (550 :> Literal(Num(1)))
ReturnMenu == {500, 503, 505, 510, 515, 525, 530, 535, 545}

AST == PreludeAST @@ MenuAST @@ LogicAST @@ ValueAST @@ FrameAST @@ ScopeAST @@ UnusedAST @@ ReturnAST
NodeIds == DOMAIN AST
\* the literal nodes whose value is drawn per script
InputA == AST[200].kids[1]
InputB == AST[203].kids[1]
\* all the literal nodes that stand for the first and the second drawn literal
DrawnA == {InputA, 302, 313, 317, 335, 343, 355}
DrawnB == {InputB, 307, 318, 336, 344, 356}

\* the names that frames and scopes bind
VarNames ==
  {"A", "M", "B", "mk", "inc", "c", "x", "o", "p", "f", "g", "r", "brk",
   "a", "b", "s", "t", "u", "w", "x", "y", "v", "h", "q", "watashi", "haha", "print", "input"}
FieldNames == {"x", "h", "z"}
MethodNames == {"shison", "m", "k", "sk", "who"}

(***************************************************************************)
(* The resolver.  A scope maps a name to 0 (absent), 1 (defined, not yet   *)
(* read) or 2 (used); a resolver state rs holds the scope stack, the       *)
(* globals scope, the node -> depth table (NoDepth: no entry), the two     *)
(* contexts, the reported semantic errors and the unused bindings.         *)
(***************************************************************************)
\* with a value bound to a name in the body
With(value, Body(_)) == Body(value)
\* the same, with the value computed once before the body is
Eager(value, Body(_)) == CHOOSE y \in {Body(x) : x \in {value}} : TRUE

NoDepth == 0 - 1
EmptyScope == [n \in VarNames |-> 0]
ScopeOf(params) ==
  [n \in VarNames |-> IF \E i \in 1..Len(params) : params[i] = n THEN 1 ELSE 0]

\* Resolver.__init__ and _load_stdlib: the host functions are preloaded as used
ResolverInit ==
  [scopes |-> <<>>,
   globals |-> [n \in VarNames |-> IF n \in {"print", "input"} THEN 2 ELSE 0],
   resolved |-> [n \in NodeIds |-> NoDepth],
   function |-> "OTHER",
   cls_context |-> "OTHER",
   errors |-> <<>>,
   unused_vars |-> [n \in VarNames |-> 0],
   reported |-> {}]

semantic_error(rs, what) == [rs EXCEPT !.errors = Append(@, what)]

innermost_only(rs, name, what) ==
  IF Len(rs.scopes) > 0 /\ rs.scopes[Len(rs.scopes)][name] # 0
  THEN semantic_error(rs, what)
  ELSE rs

check_defined(rs, name, what) ==
  IF \E i \in 1..Len(rs.scopes) : rs.scopes[i][name] # 0
  THEN semantic_error(rs, what)
  ELSE rs

check_unused(rs, scope) ==
  [rs EXCEPT !.unused_vars =
     [n \in VarNames |-> IF scope[n] = 1 THEN @[n] + 1 ELSE @[n]]]

define(rs, name, use) ==
  IF Len(rs.scopes) > 0
  THEN [rs EXCEPT !.scopes[Len(rs.scopes)][name] = IF use THEN 2 ELSE 1]
  ELSE [rs EXCEPT !.globals[name] = IF use THEN 2 ELSE 1]

\* _resolve: the innermost scope that binds the name gives the depth; the
\* globals lie at depth len(scopes).  The result carries the return value.
UseMark(use, old) == IF use THEN 2 ELSE old
resolve_name(rs, name, node, use) ==
  LET hits == {i \in 1..Len(rs.scopes) : rs.scopes[i][name] # 0} IN
  IF hits # {}
  THEN LET top == CHOOSE i \in hits : \A j \in hits : j <= i IN
       [rs |-> [rs EXCEPT !.scopes[top][name] = UseMark(use, @),
                          !.resolved[node] = Len(rs.scopes) - top],
        found |-> TRUE]
  ELSE IF rs.globals[name] # 0
  THEN [rs |-> [rs EXCEPT !.globals[name] = UseMark(use, @),
                          !.resolved[node] = Len(rs.scopes)],
        found |-> TRUE]
  ELSE [rs |-> rs, found |-> FALSE]

PopScope(rs) == [rs EXCEPT !.scopes = SubSeq(@, 1, Len(@) - 1)]
TopScope(rs) == rs.scopes[Len(rs.scopes)]

RECURSIVE RVisit(_, _), RVisitSeq(_, _, _), resolve_callable(_, _, _), RMethods(_, _, _)

\* (the test on rs makes TLC evaluate one node before it goes to the next)
RVisitSeq(nodes, i, rs) ==
  IF i > Len(nodes) \/ rs.function = "" THEN rs
  ELSE RVisitSeq(nodes, i + 1, RVisit(nodes[i], rs))

\* the observation that the visit of node n reported an error (the message
\* names the line of the node's token): before is the number of errors
\* reported when the check began
Flag(n, rs, before) ==
  IF Len(rs.errors) > before THEN [rs EXCEPT !.reported = @ \cup {n}] ELSE rs

\* the tail of visit_assign / visit_assstmt, after the initializer
resolve_target(n, rs, use) ==
  IF AST[n].flag
  THEN define(Flag(n, check_defined(rs, AST[n].name, "baka"), Len(rs.errors)),
              AST[n].name, FALSE)
  ELSE With(resolve_name(rs, AST[n].name, n, use), LAMBDA r :
         IF r.found THEN r.rs ELSE define(r.rs, AST[n].name, FALSE))

\* visit_assign (use = TRUE) and visit_assstmt (use = FALSE)
resolve_assignment(n, rs, use) == resolve_target(n, RVisit(AST[n].kids[1], rs), use)

\* _resolve_callable: the scope of the parameters, the body, the old context
resolve_callable(n, context, rs) ==
  With(RVisitSeq(AST[n].kids, 1,
                 [rs EXCEPT !.function = context,
                            !.scopes = Append(@, ScopeOf(AST[n].params))]),
       LAMBDA r : check_unused(PopScope([r EXCEPT !.function = rs.function]), TopScope(r)))

RMethods(methods, i, rs) ==
  IF i > Len(methods) \/ rs.function = "" THEN rs
  ELSE RMethods(methods, i + 1,
         resolve_callable(methods[i],
           IF AST[methods[i]].name # "shison" THEN "METHOD" ELSE "CONSTRUCTOR", rs))

\* the superclasses of visit_classdecl: the context, the check against the
\* class's own name, the references, the scope that holds haha
resolve_supercls(n, rs) ==
  IF Len(AST[n].sup) = 0 THEN rs
  ELSE With(RVisitSeq(AST[n].sup, 1,
              IF \E i \in 1..Len(AST[n].sup) : AST[AST[n].sup[i]].name = AST[n].name
              THEN semantic_error([rs EXCEPT !.cls_context = "SUBCLASS"], "own superclass")
              ELSE [rs EXCEPT !.cls_context = "SUBCLASS"]),
            LAMBDA r : [r EXCEPT !.scopes = Append(@, [EmptyScope EXCEPT !["haha"] = 2])])

\* the scopes of visit_classdecl are popped without a check for unused names
leave_classdecl(n, rs, cls_context) ==
  [rs EXCEPT !.cls_context = cls_context,
             !.scopes = SubSeq(@, 1, Len(@) - (IF Len(AST[n].sup) > 0 THEN 2 ELSE 1))]

resolve_classdecl(n, rs) ==
  leave_classdecl(n,
    RMethods(AST[n].kids, 1,
      With(resolve_supercls(n, define([rs EXCEPT !.cls_context = "CLASS"], AST[n].name, TRUE)),
           LAMBDA r : [r EXCEPT !.scopes = Append(@, [EmptyScope EXCEPT !["watashi"] = 2])])),
    rs.cls_context)

declare_function(n, rs) ==
  IF AST[n].name # ""
  THEN define(check_defined(rs, AST[n].name, "redefine function"), AST[n].name, TRUE)
  ELSE rs

resolve_functiondecl(n, rs) ==
  resolve_callable(n, "FUNCTION",
    declare_function(n, IF AST[n].dec # 0 THEN RVisit(AST[n].dec, rs) ELSE rs))

check_return(rs) ==
  IF rs.function = "OTHER" THEN semantic_error(rs, "shinu outside of functions")
  ELSE IF rs.function = "CONSTRUCTOR" THEN semantic_error(rs, "shinu in constructors")
  ELSE rs

resolve_returnstmt(n, rs) ==
  IF rs.function # "OTHER" /\ AST[n].kids[1] # 0
  THEN RVisit(AST[n].kids[1], Flag(n, check_return(rs), Len(rs.errors)))
  ELSE Flag(n, check_return(rs), Len(rs.errors))

resolve_blockstmt(n, rs) ==
  With(RVisitSeq(AST[n].kids, 1, [rs EXCEPT !.scopes = Append(@, EmptyScope)]),
       LAMBDA r : check_unused(PopScope(r), TopScope(r)))

resolve_ifstmt(n, rs) ==
  RVisitSeq(IF AST[n].kids[3] # 0 THEN AST[n].kids ELSE SubSeq(AST[n].kids, 1, 2), 1, rs)

resolve_objref(n, rs) ==
  IF rs.cls_context = "OTHER" THEN semantic_error(rs, "watashi outside class")
  ELSE resolve_name(rs, "watashi", n, FALSE).rs

resolve_superref(n, rs) ==
  resolve_name(IF rs.cls_context # "SUBCLASS"
               THEN semantic_error(rs, "haha outside subclass") ELSE rs,
               "haha", n, FALSE).rs

\* Visitor.visit of the resolver: dispatch on the node's class
RVisit(n, rs) ==
  CASE AST[n].k = "Assign" -> resolve_assignment(n, rs, TRUE)
    [] AST[n].k = "AssStmt" -> resolve_assignment(n, rs, FALSE)
    [] AST[n].k \in {"SetProperty", "BinaryExpr", "LogicalExpr", "UnaryExpr",
                     "CallExpr", "GroupingExpr", "ExprStmt", "WhileStmt"} ->
         RVisitSeq(AST[n].kids, 1, rs)
    [] AST[n].k = "PropertyAccess" -> RVisit(AST[n].kids[1], rs)
    [] AST[n].k \in {"Literal", "BreakStmt", "ContinueStmt"} -> rs
    [] AST[n].k = "ObjRef" -> resolve_objref(n, rs)
    [] AST[n].k = "SuperRef" -> resolve_superref(n, rs)
    [] AST[n].k = "VarAccess" -> resolve_name(rs, AST[n].name, n, TRUE).rs
    [] AST[n].k = "ClassDecl" -> resolve_classdecl(n, rs)
    [] AST[n].k = "FunctionDecl" -> resolve_functiondecl(n, rs)
    [] AST[n].k = "BlockStmt" -> resolve_blockstmt(n, rs)
    [] AST[n].k = "IfStmt" -> resolve_ifstmt(n, rs)
    [] AST[n].k = "ReturnStmt" -> resolve_returnstmt(n, rs)

\* _check_unused(self.globals) and _report_unused
report_unused(rs) ==
  IF \E n \in VarNames : rs.unused_vars[n] > 0
  THEN semantic_error(rs, "unused variables") ELSE rs

\* Resolver.resolve: the pass, the unused globals, the grouped warning
resolve(stmts) ==
  With(RVisitSeq(stmts, 1, ResolverInit), LAMBDA r : report_unused(check_unused(r, r.globals)))

(***************************************************************************)
(* The state of the program.                                               *)
(***************************************************************************)
VARIABLES
  script,         \* the parsed program: the top-level statements, in order
  inA, inB,       \* the values of the two drawn literals of a logic script
  phase,          \* "parsed", "running", "done", or "exit" (the process ended)
  ip,             \* how many top-level statements have been executed
  err,            \* WaifuInterpreter.err: a non-runtime error was reported
  resolved_vars,  \* the node -> depth side table the evaluator reads
  envs,           \* the frames (Environment objects), by allocation order
  funcs,          \* the WaifuFunc objects
  classes,        \* the WaifuClass objects (classes and metaclasses)
  objs,           \* the WaifuObject instances
  environment,    \* Interpreter.environment: the current frame
  exportable_vars,\* Module.exportable_vars
  out,            \* what print wrote
  trace,          \* observations of the last executed statement (see NoTrace)
  lookup,         \* the last method lookup on a drawn class hierarchy
  loaded_modules, \* WaifuInterpreter.loaded_modules: name -> Module object
  module_stack,   \* WaifuInterpreter.module_stack
  modules,        \* the Module objects, by creation order
  files,          \* the module files on disk: path -> import statements
  calls,          \* the activations of the module manager (a call stack)
  returned,       \* what each completed import_module call returned
  profile,        \* the module files on disk: path -> what the pipeline reports
  stages,         \* the log of pipeline stages and evaluated statements
  status,         \* "start", "running", "done", "exit" or "cyclic"
  lexer,          \* the Lexer object of one get_tokens call (see NoLexer)
  parser          \* the parser object of one parse call (see Parser)

restVars == <<script, inA, inB, phase, ip, resolved_vars, envs, funcs,
              classes, objs, environment, exportable_vars, out, trace>>
evalVars == <<restVars, err>>
modVars == <<loaded_modules, module_stack, modules, files, calls, returned, profile,
             stages, status>>
\* what the module manager leaves alone
notModules == <<restVars, lookup, lexer, parser>>
vars == <<evalVars, lookup, modVars, lexer, parser>>

(***************************************************************************)
(* Observations the evaluator leaves about the statement it executed:      *)
(*   depths  for each execution of a node with a recorded depth: the node, *)
(*           the depth and whether the frame at that depth from the        *)
(*           current frame binds the name                                  *)
(*   right   how often each right operand of a logical expression ran      *)
(*   logic   for each logical expression: node, left value, result         *)
(*   tests   each value handed to the truthiness test, with the answer     *)
(*   reads   for each property read of an existing field: the node, the    *)
(*           stored value and the value the read returned                  *)
(*   supers  for each haha.m: the node, the receiver and superclass list   *)
(*           visible by name, and the result                               *)
(*   made    for each call of a class: the class and the new instance      *)
(*   crossed a while loop caught a break or continue raised inside a       *)
(*           function call made in its condition or body                   *)
(*   undefined  the variable reads reported as "Undefined variable"        *)
(*   evaluated  how often the value expression of each nested assignment  *)
(*           ran                                                           *)
(*   stores  the assignments to variables, in order: the node, the name    *)
(*           and the value stored                                          *)
(***************************************************************************)
RightOperands == {AST[n].kids[2] : n \in {m \in NodeIds : AST[m].k = "LogicalExpr"}}
AssignValues == {AST[n].kids[1] : n \in {m \in NodeIds : AST[m].k = "Assign"}}
NoTrace ==
  [depths |-> {}, right |-> [n \in RightOperands |-> 0], logic |-> {},
   tests |-> {}, reads |-> {}, supers |-> {}, made |-> {}, crossed |-> FALSE,
   undefined |-> {}, evaluated |-> [n \in AssignValues |-> 0], stores |-> <<>>,
   blocks |-> {}]

\* the evaluator's state as one record, threaded through the visit operators
\* (level: the depth of function calls; raisedAt: the level at which the
\* pending break or continue was raised)
Machine ==
  [envs |-> envs, funcs |-> funcs, classes |-> classes, objs |-> objs,
   cur |-> environment, out |-> out, level |-> 0, raisedAt |-> 0,
   trace |-> NoTrace]

Res(st, val, sig) == [st |-> st, val |-> val, sig |-> sig]
Ok(st, val) == Res(st, val, "ok")
\* _report_runtime_err: the error sink ends the process (sys.exit)
Exit(st) == Res(st, Nil, "exit")
\* an uncaught host exception (AttributeError, KeyError, TypeError)
Crash(st) == Res(st, Nil, "crash")

(***************************************************************************)
(* Environment: frames with a parent link and name -> value bindings.      *)
(***************************************************************************)
NoBindings == [n \in VarNames |-> Unbound]
Frame(outer, kind, fn) ==
  [outer |-> outer, bindings |-> NoBindings, kind |-> kind, fn |-> fn]
\* Environment(outer): a new frame; its id is Len(envs)
NewEnv(st, outer, kind, fn) == [st EXCEPT !.envs = Append(@, Frame(outer, kind, fn))]
env_define(st, e, name, value) == [st EXCEPT !.envs[e].bindings[name] = value]

RECURSIVE Ancestor(_, _, _)
\* the frame k parent links above e; 0 when the chain ends before
Ancestor(es, e, k) ==
  IF e = 0 \/ k = 0 THEN e ELSE Ancestor(es, es[e].outer, k - 1)

\* get_at(depth, name): traverse depth parents, then read in that frame
get_at_index(st, index, name) ==
  LET e == Ancestor(st.envs, st.cur, index) IN
  IF e = 0 THEN Unbound ELSE st.envs[e].bindings[name]

\* assign_at(value, depth, name): traverse depth parents, then assign
assign_at(st, value, index, name) ==
  env_define(st, Ancestor(st.envs, st.cur, index), name, value)

FrameHolds(st, index, name) ==
  LET e == Ancestor(st.envs, st.cur, index) IN
  e # 0 /\ st.envs[e].bindings[name] # Unbound

NoteDepth(st, n, index, name) ==
  [st EXCEPT !.trace.depths =
     @ \cup {[n |-> n, k |-> index, ok |-> FrameHolds(st, index, name)]}]

(***************************************************************************)
(* Functions, classes, instances.                                          *)
(***************************************************************************)
PropNames == FieldNames \cup MethodNames
NoProps == [n \in PropNames |-> Unbound]
NoMethods == [n \in PropNames |-> 0]

\* WaifuFunc(node, closure)
NewFunc(st, node, closure, origin) ==
  [st EXCEPT !.funcs = Append(@, [node |-> node, closure |-> closure,
                                  origin |-> origin, declEnv |-> st.cur, calls |-> 0])]

\* WaifuFunc.bind: a frame holding watashi above the closure, and a new
\* function of the same node closed over that frame
WaifuFunc_bind(st, f, obj) ==
  With(NewEnv(st, st.funcs[f].closure, "this", 0), LAMBDA s1 :
    With(NewFunc(env_define(s1, Len(s1.envs), "watashi", obj),
                 st.funcs[f].node, Len(s1.envs), "bind"),
         LAMBDA s2 : Ok(s2, Fun(Len(s2.funcs)))))

\* a lookup that ignores the superclasses
own_method(cs, c, name) == cs[c].methods[name]

RECURSIVE get_method(_, _, _), first_method(_, _, _, _)
\* WaifuClass.get_method: 0 stands for None
get_method(cs, c, name) ==
  IF cs[c].methods[name] # 0 THEN cs[c].methods[name]
  ELSE first_method(cs, cs[c].super_cls, 1, name)
\* the loop over self.super_cls
first_method(cs, sups, i, name) ==
  IF i > Len(sups) THEN 0
  ELSE LET m == get_method(cs, sups[i], name) IN
       IF m # 0 THEN m ELSE first_method(cs, sups, i + 1, name)

\* WaifuObject.get: a field, else a method of the class; Unbound stands for
\* the RuntimeException "Property does not exist"
WaifuObject_get(st, obj, name) ==
  IF obj.t = "obj" /\ st.objs[obj.v].fields[name] # Unbound
  THEN st.objs[obj.v].fields[name]
  ELSE LET c == IF obj.t = "obj" THEN st.objs[obj.v].cls ELSE st.classes[obj.v].meta
           m == IF c = 0 THEN 0 ELSE get_method(st.classes, c, name)
       IN IF m # 0 THEN Fun(m) ELSE Unbound

\* self.methods.get("shison") of WaifuClass.call and WaifuClass.arity
own_constructor(st, c) == st.classes[c].methods["shison"]

\* dynamic scoping instead: the frame of the caller
caller_frame(st, f) == st.cur

\* the parent of the frame WaifuFunc.call allocates
call_frame_parent(st, f) == st.funcs[f].closure

\* the closure visit_functiondecl gives a new function
decl_closure(st) == st.cur

(***************************************************************************)
(* Values of the evaluator.                                                *)
(***************************************************************************)
\* _boolean_eval: operand == False or operand == None
boolean_eval(operand) ==
  IF PyEq(operand, Bool(FALSE)) \/ PyEq(operand, Nil) THEN FALSE ELSE TRUE

Test(st, operand) ==
  [st EXCEPT !.trace.tests = @ \cup {[val |-> operand, truthy |-> boolean_eval(operand)]}]

Digits == <<"0", "1", "2", "3", "4", "5", "6", "7", "8", "9">>
RECURSIVE NatStr(_)
NatStr(n) == IF n < 10 THEN Digits[n + 1] ELSE NatStr(n \div 10) \o Digits[(n % 10) + 1]
\* str() of an integer-valued float
FloatStr(n) == (IF n < 0 THEN "-" \o NatStr(0 - n) ELSE NatStr(n)) \o ".0"
\* text[:-2]
DropLast2(text) == SubSeq(text, 1, Len(text) - 2)
EndsWithDotZero(text) ==
  Len(text) >= 2 /\ SubSeq(text, Len(text) - 1, Len(text)) = ".0"

\* str(value)
PyStr(st, value) ==
  CASE value.t = "nil" -> "None"
    [] value.t = "bool" -> IF value.v = 1 THEN "True" ELSE "False"
    [] value.t = "num" -> FloatStr(value.v)
    [] value.t = "str" -> value.s
    [] value.t = "fun" ->
         LET name == AST[st.funcs[value.v].node].name IN
         IF name # "" THEN "<function " \o name \o ">" ELSE "<lambda>"
    [] value.t = "cls" -> "<class " \o st.classes[value.v].name \o ">"
    [] value.t = "obj" ->
         "<object of <class " \o st.classes[st.objs[value.v].cls].name \o ">>"
    [] OTHER -> "<" \o value.s \o " object>"

\* _make_waifuish
make_waifuish(st, value) ==
  IF ~PyEq(value, Num(0)) /\ ~PyTruth(value) THEN "baito"
  ELSE IF value.t = "num" /\ EndsWithDotZero(PyStr(st, value))
       THEN DropLast2(PyStr(st, value))
       ELSE PyStr(st, value)

(***************************************************************************)
(* The evaluator: one operator per visit_ method.  Each takes a node id    *)
(* and the machine and yields the machine after, the value, and a signal:  *)
(* "ok", or the exception in flight ("break", "continue", "return"), or    *)
(* "exit" / "crash" when the process ends, or "fuel" when the model stops  *)
(* unrolling a loop.                                                       *)
(***************************************************************************)
RECURSIVE Visit(_, _), run_stmts(_, _, _), visit_all(_, _, _, _),
          WaifuFunc_call(_, _, _), while_loop(_, _, _)

\* the statements of a block, in order, until one raises
run_stmts(stmts, i, st) ==
  IF i > Len(stmts) THEN Ok(st, Nil)
  ELSE With(Visit(stmts[i], st), LAMBDA r :
         IF r.sig # "ok" THEN r ELSE run_stmts(stmts, i + 1, r.st))

\* a try without finally: the frame is restored on normal completion only
restore_on_success(r, outer_scope) ==
  IF r.sig = "ok" THEN Res([r.st EXCEPT !.cur = outer_scope], r.val, r.sig) ELSE r

\* finally: self.environment = outer_scope, whatever left the block
restore_frame(r, outer_scope) == Res([r.st EXCEPT !.cur = outer_scope], r.val, r.sig)

\* the observation that _execute_block was left: the frame it ran in, the
\* current frame before it and the current frame after it, and what left it
Left(r, env, before) ==
  [r EXCEPT !.st.trace.blocks =
     @ \cup {[env |-> env, before |-> before, after |-> r.st.cur, sig |-> r.sig]}]

\* _execute_block
execute_block(stmts, env, st) ==
  With(run_stmts(stmts, 1, [st EXCEPT !.cur = env]), LAMBDA r :
    Left(restore_frame(r, st.cur), env, st.cur))

\* [self.visit(expr) for expr in exprs]: val is the list of values
visit_all(exprs, i, st, acc) ==
  IF i > Len(exprs) THEN Ok(st, acc)
  ELSE With(Visit(exprs[i], st), LAMBDA r :
         IF r.sig # "ok" THEN r ELSE visit_all(exprs, i + 1, r.st, Append(acc, r.val)))

RECURSIVE define_params(_, _, _, _, _)
\* for param, arg in zip(params, args): environment.define(param, arg)
define_params(st, e, params, args, i) ==
  IF i > Len(params) \/ i > Len(args) THEN st
  ELSE define_params(env_define(st, e, params[i], args[i]), e, params, args, i + 1)

\* the frame of a call: Environment(self.closure) with the parameters
call_frame(st, f, args) ==
  With(NewEnv(st, call_frame_parent(st, f), "call", f), LAMBDA s1 :
    [define_params(s1, Len(s1.envs), AST[st.funcs[f].node].params, args, 1)
       EXCEPT !.level = @ + 1, !.funcs[f].calls = @ + 1])

\* except ReturnException: return re.value; no other exception is caught
leave_call(r, level) ==
  Res([r.st EXCEPT !.level = level],
      IF r.sig = "ok" THEN Nil ELSE r.val,
      IF r.sig = "return" THEN "ok" ELSE r.sig)

\* WaifuFunc.call
WaifuFunc_call(f, args, st) ==
  With(call_frame(st, f, args), LAMBDA s1 :
    leave_call(execute_block(AST[st.funcs[f].node].kids, Len(s1.envs), s1), st.level))

\* obj = WaifuObject(self)
new_object(st, c) ==
  [st EXCEPT !.objs = Append(@, [cls |-> c, fields |-> NoProps]),
             !.trace.made = @ \cup {[cls |-> c, obj |-> Len(st.objs) + 1,
                                     inits |-> IF own_constructor(st, c) # 0 THEN 1 ELSE 0]}]

\* WaifuClass.call
WaifuClass_call(c, args, st) ==
  With(new_object(st, c), LAMBDA s1 :
    IF own_constructor(s1, c) # 0
    THEN With(WaifuFunc_bind(s1, own_constructor(s1, c), Obj(Len(s1.objs))), LAMBDA b :
           With(WaifuFunc_call(b.val.v, args, b.st), LAMBDA r :
             IF r.sig = "ok" THEN Ok(r.st, Obj(Len(s1.objs))) ELSE r))
    ELSE Ok(s1, Obj(Len(s1.objs))))

\* the line Input.call reads from the terminal
TypedLine == "s"

\* Print.call and Input.call
Host_call(h, args, st) ==
  Ok([st EXCEPT !.out = Append(@, make_waifuish(st, args[1]))],
     IF h = "print" THEN Nil ELSE Str(make_waifuish(st, Str(TypedLine))))

\* callee.arity()
arity(st, callee) ==
  CASE callee.t = "fun" -> Len(AST[st.funcs[callee.v].node].params)
    [] callee.t = "cls" ->
         IF own_constructor(st, callee.v) # 0
         THEN Len(AST[st.funcs[own_constructor(st, callee.v)].node].params)
         ELSE 0
    [] OTHER -> 1

\* the checks of visit_callexpr and callee.call(self, args)
call(callee, args, st) ==
  IF callee.t \notin {"fun", "cls", "host"} THEN Exit(st)
  ELSE IF arity(st, callee) # Len(args) THEN Exit(st)
  ELSE CASE callee.t = "fun" -> WaifuFunc_call(callee.v, args, st)
         [] callee.t = "cls" -> WaifuClass_call(callee.v, args, st)
         [] OTHER -> Host_call(callee.s, args, st)

visit_callexpr(n, st) ==
  With(Visit(AST[n].kids[1], st), LAMBDA rc :
    IF rc.sig # "ok" THEN rc
    ELSE With(visit_all(Tail(AST[n].kids), 1, rc.st, <<>>), LAMBDA ra :
           IF ra.sig # "ok" THEN ra ELSE call(rc.val, ra.val, ra.st)))

visit_literal(n, st) ==
  Ok(st, IF n \in DrawnA THEN inA ELSE IF n \in DrawnB THEN inB ELSE AST[n].lit)

\* a read of a frame that does not hold the name raises in the host
read_at(st, index, name) ==
  IF get_at_index(st, index, name) = Unbound
  THEN Crash(st)
  ELSE Ok(st, get_at_index(st, index, name))

visit_varaccess(n, st) ==
  IF resolved_vars[n] # NoDepth
  THEN With(read_at(st, resolved_vars[n], AST[n].name), LAMBDA r :
         Res(NoteDepth(st, n, resolved_vars[n], AST[n].name), r.val, r.sig))
  ELSE Exit([st EXCEPT !.trace.undefined = @ \cup {n}])

\* the tail of visit_assstmt and visit_assign, after the expression
store(n, st, value) ==
  IF AST[n].flag \/ resolved_vars[n] = NoDepth
  THEN Ok(env_define(st, st.cur, AST[n].name, value), value)
  ELSE IF Ancestor(st.envs, st.cur, resolved_vars[n]) = 0
  THEN Crash(NoteDepth(st, n, resolved_vars[n], AST[n].name))
  ELSE Ok(assign_at(NoteDepth(st, n, resolved_vars[n], AST[n].name),
                    value, resolved_vars[n], AST[n].name), value)

\* the observation of a completed assignment to a variable
Stored(w, n) ==
  IF w.sig # "ok" THEN w.st
  ELSE [w.st EXCEPT !.trace.stores = Append(@, [n |-> n, name |-> AST[n].name, val |-> w.val])]

\* an assignment expression without `return value`
yields_none(n, st) ==
  With(Visit(AST[n].kids[1], st), LAMBDA r :
    IF r.sig # "ok" THEN r
    ELSE With(store(n, r.st, r.val), LAMBDA w : Res(Stored(w, n), Nil, w.sig)))

\* visit_assstmt and visit_assign; the statement yields None, the expression
\* the value
assignment(n, st) ==
  With(Visit(AST[n].kids[1], st), LAMBDA r :
    IF r.sig # "ok" THEN r
    ELSE With(store(n, r.st, r.val), LAMBDA w :
           Res(Stored(w, n), IF AST[n].k = "Assign" THEN w.val ELSE Nil, w.sig)))

visit_setproperty(n, st) ==
  With(Visit(AST[n].kids[1], st), LAMBDA ro :
    IF ro.sig # "ok" THEN ro
    ELSE IF ro.val.t # "obj" THEN Exit(ro.st)
    ELSE With(Visit(AST[n].kids[2], ro.st), LAMBDA rv :
           IF rv.sig # "ok" THEN rv
           ELSE Ok([rv.st EXCEPT !.objs[ro.val.v].fields[AST[n].name] = rv.val], rv.val)))

has_field(st, obj, name) == obj.t = "obj" /\ st.objs[obj.v].fields[name] # Unbound

\* if type(property) is WaifuFunc: return property.bind(obj)
bind_property(st, obj, property) ==
  IF property.t = "fun" THEN WaifuFunc_bind(st, property.v, obj) ELSE Ok(st, property)

\* the tail of visit_propertyaccess, after the object
get_property(n, st, obj) ==
  With(WaifuObject_get(st, obj, AST[n].name), LAMBDA property :
    IF property = Unbound THEN Exit(st)
    ELSE With(bind_property(st, obj, property), LAMBDA r :
           IF has_field(st, obj, AST[n].name)
           THEN Ok([r.st EXCEPT !.trace.reads =
                      @ \cup {[n |-> n, stored |-> property, returned |-> r.val]}], r.val)
           ELSE r))

visit_propertyaccess(n, st) ==
  With(Visit(AST[n].kids[1], st), LAMBDA ro :
    IF ro.sig # "ok" THEN ro
    ELSE IF ro.val.t \notin {"obj", "cls"} THEN Exit(ro.st)
    ELSE get_property(n, ro.st, ro.val))

visit_objref(n, st) ==
  IF resolved_vars[n] = NoDepth THEN Crash(st)
  ELSE With(read_at(st, resolved_vars[n], "watashi"), LAMBDA r :
         Res(NoteDepth(st, n, resolved_vars[n], "watashi"), r.val, r.sig))

RECURSIVE first_super_method(_, _, _, _)
\* for super_cls in super_clsses: method = super_cls.get_method(name);
\* if method: break
first_super_method(cs, super_clsses, i, name) ==
  IF i > Len(super_clsses) THEN 0
  ELSE With(get_method(cs, super_clsses[i], name), LAMBDA method :
         IF method # 0 THEN method
         ELSE first_super_method(cs, super_clsses, i + 1, name))

RECURSIVE nearest(_, _, _)
\* the binding of the name that a walk up the frame chain meets first
nearest(es, e, name) ==
  IF e = 0 THEN Unbound
  ELSE IF es[e].bindings[name] # Unbound THEN es[e].bindings[name]
  ELSE nearest(es, es[e].outer, name)

\* an evaluation of haha.m, noted with the receiver and the superclass list
\* that are visible by name
NoteSuper(st, n, ok, this, method, bound) ==
  [st EXCEPT !.trace.supers =
     @ \cup {[n |-> n, ok |-> ok, this |-> this, method |-> method, bound |-> bound,
              recv |-> nearest(st.envs, st.cur, "watashi"),
              sup |-> nearest(st.envs, st.cur, "haha")]}]

\* the tail of visit_superref, after the two reads
super_method(n, st, super_clsses, this) ==
  With(first_super_method(st.classes, st.classes[super_clsses.v].super_cls, 1, AST[n].name),
       LAMBDA method :
    IF method = 0 THEN Exit(NoteSuper(st, n, TRUE, this, 0, 0))
    ELSE With(WaifuFunc_bind(st, method, this), LAMBDA r :
           Ok(NoteSuper(r.st, n, TRUE, this, method, r.val.v), r.val)))

visit_superref(n, st) ==
  IF resolved_vars[n] = NoDepth THEN Crash(st)
  ELSE With(NoteDepth(st, n, resolved_vars[n], "haha"), LAMBDA s1 :
         With(get_at_index(st, resolved_vars[n], "haha"), LAMBDA super_clsses :
           With(get_at_index(st, resolved_vars[n] - 1, "watashi"), LAMBDA this :
             IF super_clsses.t # "supers" \/ this = Unbound
             THEN Crash(NoteSuper(s1, n, FALSE, this, 0, 0))
             ELSE super_method(n, s1, super_clsses, this))))

RECURSIVE visit_supercls(_, _, _, _)
\* the loop over node.supercls; reporting a superclass that is not a class
\* reads node.supercls.name of a list, which raises AttributeError
visit_supercls(sup, i, st, acc) ==
  IF i > Len(sup) THEN Ok(st, acc)
  ELSE With(Visit(sup[i], st), LAMBDA r :
         IF r.sig # "ok" THEN r
         ELSE IF r.val.t # "cls" THEN Crash(r.st)
         ELSE visit_supercls(sup, i + 1, r.st, Append(acc, r.val.v)))

\* (meta_cls if method.static else cls).add_method(name, WaifuFunc(method, environment))
add_method(st, method, cls, meta_cls, env) ==
  With(NewFunc(st, method, env, "method"), LAMBDA s1 :
    [s1 EXCEPT !.classes[IF AST[method].flag THEN meta_cls ELSE cls]
                 .methods[AST[method].name] = Len(s1.funcs)])

RECURSIVE add_methods(_, _, _, _, _, _)
add_methods(st, methods, i, cls, meta_cls, env) ==
  IF i > Len(methods) THEN st
  ELSE add_methods(add_method(st, methods[i], cls, meta_cls, env),
                   methods, i + 1, cls, meta_cls, env)

WaifuClass(name, super_cls, meta_cls) ==
  [name |-> name, super_cls |-> super_cls, meta |-> meta_cls, methods |-> NoMethods]

\* the metaclass (its superclasses are the metaclasses of the superclasses),
\* the class, and the binding of the class name
new_class(n, st, supercls) ==
  With([st EXCEPT !.classes =
          Append(@, WaifuClass("__" \o AST[n].name \o "__",
                               [i \in 1..Len(supercls) |-> st.classes[supercls[i]].meta], 0))],
       LAMBDA s1 :
    env_define([s1 EXCEPT !.classes =
                  Append(@, WaifuClass(AST[n].name, supercls, Len(s1.classes)))],
               s1.cur, AST[n].name, Cls(Len(s1.classes) + 1)))

\* environment = Environment(environment); environment.define("haha", supercls)
haha_env(st, cls) ==
  With(NewEnv(st, st.cur, "haha", 0), LAMBDA s1 :
    env_define(s1, Len(s1.envs), "haha", Supers(cls)))

\* the tail of visit_classdecl, after the superclasses
declare_class(n, st) ==
  IF Len(AST[n].sup) > 0
  THEN With(haha_env(st, Len(st.classes)), LAMBDA s1 :
         add_methods(s1, AST[n].kids, 1, Len(st.classes), Len(st.classes) - 1, Len(s1.envs)))
  ELSE add_methods(st, AST[n].kids, 1, Len(st.classes), Len(st.classes) - 1, st.cur)

visit_classdecl(n, st) ==
  With(visit_supercls(AST[n].sup, 1, st, <<>>), LAMBDA rs :
    IF rs.sig # "ok" THEN rs
    ELSE Ok(declare_class(n, new_class(n, rs.st, rs.val)), Nil))

\* wrapper = dec_func.call(self, [WaifuFunc(node, self.environment)]);
\* self.environment.define(node.name.value, wrapper)
decorate(n, st, dec_func) ==
  With(NewFunc(st, n, decl_closure(st), "decl"), LAMBDA s1 :
    With(WaifuFunc_call(dec_func.v, <<Fun(Len(s1.funcs))>>, s1), LAMBDA wrapper :
      IF wrapper.sig # "ok" THEN wrapper
      ELSE Ok(env_define(wrapper.st, wrapper.st.cur, AST[n].name, wrapper.val), Nil)))

\* _decorated_function
decorated_function(n, st) ==
  IF resolved_vars[AST[n].dec] = NoDepth THEN Exit(st)
  ELSE With(get_at_index(st, resolved_vars[AST[n].dec], AST[AST[n].dec].name),
            LAMBDA dec_func :
         IF dec_func.t # "fun" THEN Exit(st)
         ELSE IF arity(st, dec_func) # 1 THEN Exit(st)
         ELSE decorate(n, st, dec_func))

visit_functiondecl(n, st) ==
  With(NewFunc(st, n, decl_closure(st), "decl"), LAMBDA s1 :
    IF AST[n].name = "" THEN Ok(s1, Fun(Len(s1.funcs)))
    ELSE IF AST[n].dec # 0 THEN decorated_function(n, s1)
    ELSE Ok(env_define(s1, s1.cur, AST[n].name, Fun(Len(s1.funcs))), Nil))

visit_breakstmt(n, st) == Res([st EXCEPT !.raisedAt = st.level], Nil, "break")
visit_continuestmt(n, st) == Res([st EXCEPT !.raisedAt = st.level], Nil, "continue")

visit_returnstmt(n, st) ==
  IF AST[n].kids[1] = 0 THEN Res(st, Nil, "return")
  ELSE With(Visit(AST[n].kids[1], st), LAMBDA r :
         IF r.sig # "ok" THEN r ELSE Res(r.st, r.val, "return"))

\* a loop catching a break or continue: it crossed a call boundary when it
\* was raised at a deeper call level than the loop's
Caught(st) == [st EXCEPT !.trace.crossed = @ \/ st.raisedAt > st.level]

\* the inner loop of visit_whilestmt; the model stops unrolling after fuel
\* iterations
while_loop(n, st, fuel) ==
  With(Visit(AST[n].kids[1], st), LAMBDA rc :
    IF rc.sig # "ok" THEN rc
    ELSE IF ~boolean_eval(rc.val) THEN Ok(Test(rc.st, rc.val), Nil)
    ELSE IF fuel = 0 THEN Res(rc.st, Nil, "fuel")
    ELSE With(Visit(AST[n].kids[2], Test(rc.st, rc.val)), LAMBDA rb :
           IF rb.sig = "ok" THEN while_loop(n, rb.st, fuel - 1)
           ELSE IF rb.sig = "continue" THEN while_loop(n, Caught(rb.st), fuel - 1)
           ELSE rb))

visit_whilestmt(n, st) ==
  With(while_loop(n, st, MaxIter), LAMBDA r :
    IF r.sig = "break" THEN Ok(Caught(r.st), Nil) ELSE r)

visit_ifstmt(n, st) ==
  With(Visit(AST[n].kids[1], st), LAMBDA rc :
    IF rc.sig # "ok" THEN rc
    ELSE IF boolean_eval(rc.val) THEN Visit(AST[n].kids[2], Test(rc.st, rc.val))
    ELSE IF AST[n].kids[3] # 0 THEN Visit(AST[n].kids[3], Test(rc.st, rc.val))
    ELSE Ok(Test(rc.st, rc.val), Nil))

visit_blockstmt(n, st) ==
  With(NewEnv(st, st.cur, "block", 0), LAMBDA s1 :
    execute_block(AST[n].kids, Len(s1.envs), s1))

visit_exprstmt(n, st) ==
  With(Visit(AST[n].kids[1], st), LAMBDA r :
    IF r.sig # "ok" THEN r ELSE Ok(r.st, Nil))

\* _check_num_binary: type(x) is float excludes booleans
check_num_binary(left, right) == left.t = "num" /\ right.t = "num"

\* the operator applied to the two values
binary(op, left, right, st) ==
  CASE op = "PLUS" ->
         IF left.t = "str" \/ left.t = "str"
         THEN Ok(st, Str(make_waifuish(st, left) \o make_waifuish(st, right)))
         ELSE IF check_num_binary(left, right) THEN Ok(st, Num(left.v + right.v))
         ELSE Exit(st)
    [] op = "EQUAL" -> Ok(st, Bool(PyEq(left, right)))
    [] op = "UNEQUAL" -> Ok(st, Bool(~PyEq(left, right)))
    [] OTHER ->
         IF ~check_num_binary(left, right) THEN Exit(st)
         ELSE CASE op = "MINUS" -> Ok(st, Num(left.v - right.v))
                [] op = "TIMES" -> Ok(st, Num(left.v * right.v))
                [] op = "LESS" -> Ok(st, Bool(left.v < right.v))
                [] op = "LESS_EQ" -> Ok(st, Bool(left.v <= right.v))
                [] op = "GREATER" -> Ok(st, Bool(left.v > right.v))
                [] op = "GREATER_EQ" -> Ok(st, Bool(left.v >= right.v))

visit_binaryexpr(n, st) ==
  With(Visit(AST[n].kids[1], st), LAMBDA rl :
    IF rl.sig # "ok" THEN rl
    ELSE With(Visit(AST[n].kids[2], rl.st), LAMBDA rr :
           IF rr.sig # "ok" THEN rr
           ELSE binary(AST[n].name, rl.val, rr.val, rr.st)))

\* the result of a logical expression, noted in the trace
logical(n, left, r) ==
  IF r.sig # "ok" THEN r
  ELSE [r EXCEPT !.st.trace.logic =
          @ \cup {[n |-> n, op |-> AST[n].name, left |-> left, val |-> r.val]}]

\* the parser stores the operator Token in the node; the evaluator compares
\* it with the enumeration member TokenType.OR
visit_logicalexpr(n, st) ==
  With(Visit(AST[n].kids[1], st), LAMBDA rl :
    IF rl.sig # "ok" THEN rl
    ELSE IF Token_eq(Token(AST[n].name, ""), TokenType("OR"))
    THEN IF boolean_eval(rl.val) THEN logical(n, rl.val, Ok(Test(rl.st, rl.val), rl.val))
         ELSE logical(n, rl.val, Visit(AST[n].kids[2], Test(rl.st, rl.val)))
    ELSE IF ~boolean_eval(rl.val) THEN logical(n, rl.val, Ok(Test(rl.st, rl.val), rl.val))
         ELSE logical(n, rl.val, Visit(AST[n].kids[2], Test(rl.st, rl.val))))

visit_unaryexpr(n, st) ==
  With(Visit(AST[n].kids[1], st), LAMBDA r :
    IF r.sig # "ok" THEN r
    ELSE IF AST[n].name = "MINUS"
    THEN IF r.val.t = "num" THEN Ok(r.st, Num(0 - r.val.v)) ELSE Exit(r.st)
    ELSE Ok(Test(r.st, r.val), Bool(~boolean_eval(r.val))))

\* the node is about to be visited
Enter(n, st) ==
  IF n \in RightOperands THEN [st EXCEPT !.trace.right[n] = @ + 1]
  ELSE IF n \in AssignValues THEN [st EXCEPT !.trace.evaluated[n] = @ + 1]
  ELSE st

\* Visitor.visit: dispatch on the node's class
Visit(n, st0) ==
  With(Enter(n, st0), LAMBDA st : With(AST[n].k, LAMBDA k :
     CASE k = "Literal" -> visit_literal(n, st)
       [] k = "VarAccess" -> visit_varaccess(n, st)
       [] k \in {"AssStmt", "Assign"} -> assignment(n, st)
       [] k = "SetProperty" -> visit_setproperty(n, st)
       [] k = "PropertyAccess" -> visit_propertyaccess(n, st)
       [] k = "CallExpr" -> visit_callexpr(n, st)
       [] k = "ObjRef" -> visit_objref(n, st)
       [] k = "SuperRef" -> visit_superref(n, st)
       [] k = "LogicalExpr" -> visit_logicalexpr(n, st)
       [] k = "BinaryExpr" -> visit_binaryexpr(n, st)
       [] k = "UnaryExpr" -> visit_unaryexpr(n, st)
       [] k = "GroupingExpr" -> Visit(AST[n].kids[1], st)
       [] k = "ExprStmt" -> visit_exprstmt(n, st)
       [] k = "BlockStmt" -> visit_blockstmt(n, st)
       [] k = "IfStmt" -> visit_ifstmt(n, st)
       [] k = "WhileStmt" -> visit_whilestmt(n, st)
       [] k = "BreakStmt" -> visit_breakstmt(n, st)
       [] k = "ContinueStmt" -> visit_continuestmt(n, st)
       [] k = "ReturnStmt" -> visit_returnstmt(n, st)
       [] k = "FunctionDecl" -> visit_functiondecl(n, st)
       [] k = "ClassDecl" -> visit_classdecl(n, st)))

(***************************************************************************)
(* The interpreter run of one script.                                      *)
(***************************************************************************)
\* a statement is one node of the tree, so a script holds it once
ObjectScripts ==
  {Prelude \o picks \o Epilogue :
     picks \in {p \in [1..ProgLen -> Menu] : \A i, j \in 1..ProgLen : i # j => p[i] # p[j]}}

\* the variables of the other specifications, at rest
LookupIdle == lookup = [classes |-> <<>>, cls |-> 0, found |-> 0]
\* Lexer.__init__ on an empty text, before any get_tokens call: text is the
\* sequence of characters, tokens the token list, errors what was reported
\* to the error handler, state "idle", "scanning", "returned" (get_tokens
\* returned the list) or "raised" (an exception left get_tokens)
NoLexer ==
  [text |-> <<>>, start_pos |-> 0, curr_pos |-> 0, line |-> 1, tokens |-> <<>>,
   indent_pos |-> 0, indent_stack |-> <<>>, empty_line |-> TRUE, errors |-> <<>>,
   state |-> "idle"]
LexerIdle == lexer = NoLexer
\* a parser before any token list: index and lookahead are positions in
\* tokens counted from 1, stmts is the list parse() builds, state is "idle",
\* "parsing", "returned" or "raised" (an exception left parse())
NoParser ==
  [tokens |-> <<>>, index |-> 1, lookahead |-> 1, errors |-> <<>>, loop_count |-> 0,
   thrown |-> FALSE, decls |-> <<>>, stmts |-> <<>>, state |-> "idle"]
ParserIdle == parser = NoParser
ModulesIdle ==
  /\ loaded_modules = <<>>
  /\ module_stack = <<>>
  /\ modules = <<>>
  /\ files = <<>>
  /\ calls = <<>>
  /\ returned = {}
  /\ profile = <<>>
  /\ stages = <<>>
  /\ status = "idle"

\* a parsed script; Module.__init__ gives the module an empty top-level frame
Init ==
  /\ \/ script \in ObjectScripts /\ inA = Nil /\ inB = Nil
     \/ script = LogicScript /\ inA \in LiteralValues /\ inB \in LiteralValues
     \/ script \in ValueScripts /\ inA \in LiteralValues /\ inB \in LiteralValues
     \/ script \in FrameScripts /\ inA \in LiteralValues /\ inB \in LiteralValues
  /\ phase = "parsed"
  /\ ip = 0
  /\ err = FALSE
  /\ resolved_vars = [n \in NodeIds |-> NoDepth]
  /\ envs = <<Frame(0, "module", 0)>>
  /\ funcs = <<>>
  /\ classes = <<>>
  /\ objs = <<>>
  /\ environment = 1
  /\ exportable_vars = {}
  /\ out = <<>>
  /\ trace = NoTrace
  /\ LookupIdle
  /\ ModulesIdle
  /\ LexerIdle
  /\ ParserIdle

\* Interpreter.__init__ / _load_stdlib: instances of the host classes are
\* defined in the module's top-level frame under their lower-cased names
load_stdlib(es) ==
  [es EXCEPT ![1].bindings["print"] = Host("print"), ![1].bindings["input"] = Host("input")]

\* the end of _interpret_module after the resolver pass: sys.exit on a
\* reported error, else the Interpreter is constructed
AfterResolve(rs) ==
  /\ err' = (Len(rs.errors) > 0)
  /\ phase' = IF Len(rs.errors) > 0 THEN "exit" ELSE "running"
  /\ envs' = IF Len(rs.errors) > 0 THEN envs ELSE load_stdlib(envs)
  /\ UNCHANGED <<script, inA, inB, ip, funcs, classes, objs, environment,
                 exportable_vars, out, trace, lookup, modVars, lexer, parser>>

\* _interpret_module: the resolver records into its own resolved_vars and
\* the dictionary resolve() returns is dropped
Resolve ==
  /\ phase = "parsed"
  /\ UNCHANGED resolved_vars
  /\ AfterResolve(resolve(script))

\* the resolver pass as tests/test_resolver.py observes it: the entries are
\* in the resolved_vars of the module's interpreter
Share(rs) ==
  /\ resolved_vars' = rs.resolved
  /\ AfterResolve(rs)

ResolveShared ==
  /\ phase = "parsed"
  /\ Share(resolve(script))

\* the machine after a statement becomes the state of the program
Commit(r) ==
  /\ envs' = r.st.envs
  /\ funcs' = r.st.funcs
  /\ classes' = r.st.classes
  /\ objs' = r.st.objs
  /\ environment' = r.st.cur
  /\ out' = r.st.out
  /\ trace' = r.st.trace
  /\ phase' = IF r.sig = "ok" THEN "running" ELSE "exit"

\* Interpreter.visit_stmts: the next top-level statement.  An exception that
\* leaves the statement reaches interpret(), which reports it.
ExecStmt ==
  /\ phase = "running"
  /\ ip < Len(script)
  /\ Commit(Visit(script[ip + 1], Machine))
  /\ ip' = ip + 1
  /\ UNCHANGED <<script, inA, inB, err, resolved_vars, exportable_vars, lookup, modVars, lexer, parser>>

\* Interpreter._export, after the last statement
Export ==
  /\ phase = "running"
  /\ ip = Len(script)
  /\ exportable_vars' = {n \in VarNames : envs[environment].bindings[n] # Unbound}
  /\ phase' = "done"
  /\ UNCHANGED <<script, inA, inB, ip, err, resolved_vars, envs, funcs, classes,
                 objs, environment, out, trace, lookup, modVars, lexer, parser>>

Next == Resolve \/ ResolveShared \/ ExecStmt \/ Export

Spec == Init /\ [][Next]_vars

(***************************************************************************)
(* The resolver pass alone, on scripts of up to ProgLen different          *)
(* statements of the resolver menus.                                       *)
(***************************************************************************)
ResolverMenu == ScopeMenu \cup UnusedMenu \cup ReturnMenu
ResolverScripts ==
  UNION {{p \in [1..k -> ResolverMenu] : \A i, j \in 1..k : i # j => p[i] # p[j]} :
           k \in 1..ProgLen}

ResolverStart ==
  /\ script \in ResolverScripts
  /\ inA = Nil
  /\ inB = Nil
  /\ phase = "parsed"
  /\ ip = 0
  /\ err = FALSE
  /\ resolved_vars = [n \in NodeIds |-> NoDepth]
  /\ envs = <<Frame(0, "module", 0)>>
  /\ funcs = <<>>
  /\ classes = <<>>
  /\ objs = <<>>
  /\ environment = 1
  /\ exportable_vars = {}
  /\ out = <<>>
  /\ trace = NoTrace
  /\ LookupIdle
  /\ ModulesIdle
  /\ LexerIdle
  /\ ParserIdle

ResolverNext == Resolve \/ ResolveShared

ResolverSpec == ResolverStart /\ [][ResolverNext]_vars

(***************************************************************************)
(* Method lookup on drawn class hierarchies.  Classes are declared one     *)
(* after the other; a class names as superclasses classes declared before  *)
(* it (visit_classdecl evaluates the superclass names), and defines the    *)
(* method m or not.  A method is identified by the class that defines it.  *)
(***************************************************************************)
\* the interpreter's variables, at rest
EvalIdle ==
  /\ script = <<>>
  /\ inA = Nil
  /\ inB = Nil
  /\ phase = "idle"
  /\ ip = 0
  /\ err = FALSE
  /\ resolved_vars = <<>>
  /\ envs = <<>>
  /\ funcs = <<>>
  /\ classes = <<>>
  /\ objs = <<>>
  /\ environment = 0
  /\ exportable_vars = {}
  /\ out = <<>>
  /\ trace = NoTrace

\* the lists of at most MaxSupers distinct classes among 1..n
SuperLists(n) ==
  {sups \in UNION {[1..k -> 1..n] : k \in 0..MaxSupers} :
     \A i, j \in 1..Len(sups) : i # j => sups[i] # sups[j]}

LookupInit ==
  /\ lookup = [classes |-> <<>>, cls |-> 0, found |-> 0]
  /\ EvalIdle
  /\ ModulesIdle
  /\ LexerIdle
  /\ ParserIdle

\* a class declaration: WaifuClass(name, supercls, meta) and add_method
DeclareClass ==
  /\ Len(lookup.classes) < NumCls
  /\ \E sups \in SuperLists(Len(lookup.classes)), own \in BOOLEAN :
       lookup' = [classes |->
                    Append(lookup.classes,
                      [WaifuClass("C", sups, 0) EXCEPT
                         !.methods["m"] = IF own THEN Len(lookup.classes) + 1 ELSE 0]),
                  cls |-> 0, found |-> 0]
  /\ UNCHANGED <<evalVars, modVars, lexer, parser>>

\* cls.get_method("m") for one of the declared classes
LookupMethod ==
  /\ lookup.cls = 0
  /\ \E c \in 1..Len(lookup.classes) :
       lookup' = [lookup EXCEPT !.cls = c, !.found = get_method(lookup.classes, c, "m")]
  /\ UNCHANGED <<evalVars, modVars, lexer, parser>>

LookupNext == DeclareClass \/ LookupMethod

LookupSpec == LookupInit /\ [][LookupNext]_vars

(***************************************************************************)
(* The module manager.  A module path is the list of its dotted segments;  *)
(* a file is the list of the paths its import statements name.  The        *)
(* pipeline of a module runs the resolver pass and then the evaluator pass *)
(* over its statements, and both passes call import_module for each import *)
(* statement.  calls is the stack of running _interpret_module             *)
(* activations: the module, the pass, the next statement.                  *)
(***************************************************************************)
MainPath == <<"main">>
\* the paths import statements name; there is no file c.waifu
ImportPaths == {<<"a">>, <<"b">>, <<"d", "a">>, <<"c">>}
\* the files whose statements are drawn
Bodies == UNION {[1..k -> ImportPaths] : k \in 0..MaxImports}
\* the other files: b.waifu imports a, d/a.waifu has no statements
FixedFiles == (<<"b">> :> <<<<"a">>>>) @@ (<<"d", "a">> :> <<>>)
\* the names each file binds at its top level, before its import statements
TopNames ==
  (MainPath :> {"x"}) @@ (<<"a">> :> {"x"}) @@ (<<"b">> :> {"y"}) @@ (<<"d", "a">> :> {"x", "y"})
\* the names a top frame can hold: the host functions and the top-level names
ScopeNames == {"print", "input", "x", "y"}
\* what a drawn file makes its pipeline report: nothing, a lexical error, a
\* syntax error, a semantic error in its first statement, or the warning
\* about unused variables at the end of the resolver pass
Profiles == {"none", "lexical", "syntax", "semantic", "unused"}

\* module_path.split(".")[-1]
module_name(module_path) == module_path[Len(module_path)]

ModuleNames == {"main", "a", "b", "c"}

\* no binding of a name in a top frame
NoValue == [module |-> 0, name |-> ""]

\* Module(name, source_file, self): no exportable names, an empty top frame;
\* evals counts the evaluations of its body
Module(name, path) ==
  [name |-> name, path |-> path, evals |-> 0, exportable_vars |-> {},
   scope |-> [n \in ScopeNames |-> NoValue], completed |-> FALSE]

\* a manager that keeps no record of what it loaded
never_loaded(lm, name) == 0

\* self.loaded_modules.get(name): 0 stands for None
loaded(lm, name) == lm[name]

\* a manager that never finds the name on the stack
never_on_stack(stack, ms, name) == FALSE

\* for module in self.module_stack: if module.name == name
on_stack(stack, ms, name) == \E i \in 1..Len(stack) : ms[stack[i]].name = name

\* a driver that goes on whatever was reported
never_aborts(e) == FALSE

\* if self.err: sys.exit(-1)
aborts(e) == e

\* an export of the names the module itself declared only
declared_names(m, scope) == {n \in ScopeNames : scope[n].module = m}

\* _export: for var in self.environment.bindings
bound_names(m, scope) == {n \in ScopeNames : scope[n] # NoValue}

\* Interpreter.__init__ (_load_stdlib) and the top-level declarations of the
\* file: the values are the module's own
top_frame(ms, m) ==
  [n \in ScopeNames |->
     IF n \in {"print", "input"} \cup TopNames[ms[m].path]
     THEN [module |-> m, name |-> n] ELSE ms[m].scope[n]]

\* visit_importstmt: for variable in module.exportable_vars:
\* self.module.import_name(variable, module)
import_names(ms, importer, m) ==
  [ms EXCEPT ![importer].scope =
     [n \in ScopeNames |-> IF n \in ms[m].exportable_vars THEN ms[m].scope[n] ELSE @[n]]]

ModulesInit ==
  /\ \E drawn \in [{MainPath, <<"a">>} -> Bodies] : files = drawn @@ FixedFiles
  /\ \E p \in [{MainPath, <<"a">>} -> Profiles] :
       profile = p @@ (<<"b">> :> "none") @@ (<<"d", "a">> :> "none")
  /\ loaded_modules = [n \in ModuleNames |-> 0]
  /\ module_stack = <<>>
  /\ modules = <<>>
  /\ calls = <<>>
  /\ returned = {}
  /\ stages = <<>>
  /\ status = "start"
  /\ lookup = [classes |-> <<>>, cls |-> 0, found |-> 0]
  /\ EvalIdle
  /\ LexerIdle
  /\ ParserIdle

\* the statements of the file of module m
body_of(m) == files[modules[m].path]

\* the running activation
Top == calls[Len(calls)]

\* the log with the stage that starts now
Logged(stage) == Append(stages, [module |-> Top.module, stage |-> stage, err |-> err])

\* the log with the statement the evaluator pass starts now
Noted == IF Top.pass = "interpret" THEN Logged("statement") ELSE stages

\* WaifuInterpreter.run: the main module is registered and evaluated
Run ==
  /\ status = "start"
  /\ modules' = <<Module(module_name(MainPath), MainPath)>>
  /\ loaded_modules' = [loaded_modules EXCEPT ![module_name(MainPath)] = 1]
  /\ module_stack' = <<1>>
  /\ calls' = <<[module |-> 1, pass |-> "lexer", pc |-> 0]>>
  /\ status' = "running"
  /\ UNCHANGED <<files, profile, returned, stages, err, notModules>>

\* _interpret_module: lexer.get_tokens(), then the check of self.err
LexModule ==
  /\ Len(calls) > 0
  /\ Top.pass = "lexer"
  /\ stages' = Logged("lexer")
  /\ err' = (err \/ profile[modules[Top.module].path] = "lexical")
  /\ IF aborts(err')
     THEN calls' = <<>> /\ status' = "exit"
     ELSE calls' = [calls EXCEPT ![Len(calls)].pass = "parser"] /\ status' = status
  /\ UNCHANGED <<files, profile, loaded_modules, module_stack, modules, returned, notModules>>

\* _interpret_module: parser.parse(), then the check of self.err
ParseModule ==
  /\ Len(calls) > 0
  /\ Top.pass = "parser"
  /\ stages' = Logged("parser")
  /\ err' = (err \/ profile[modules[Top.module].path] = "syntax")
  /\ IF aborts(err')
     THEN calls' = <<>> /\ status' = "exit"
     ELSE calls' = [calls EXCEPT ![Len(calls)].pass = "resolve"] /\ status' = status
  /\ UNCHANGED <<files, profile, loaded_modules, module_stack, modules, returned, notModules>>

\* resolver.resolve(ast) up to the first import statement
ResolveModule ==
  /\ Len(calls) > 0
  /\ Top.pass = "resolve"
  /\ Top.pc = 0
  /\ stages' = Logged("resolver")
  /\ err' = (err \/ profile[modules[Top.module].path] = "semantic")
  /\ calls' = [calls EXCEPT ![Len(calls)].pc = 1]
  /\ UNCHANGED <<files, profile, loaded_modules, module_stack, modules, returned, status,
                 notModules>>

\* the running activation is at an import statement
AtImport ==
  /\ Len(calls) > 0
  /\ Top.pass \in {"resolve", "interpret"}
  /\ Top.pc >= 1
  /\ Top.pc <= Len(body_of(Top.module))

\* the path the import statement names
ImportPath == body_of(Top.module)[Top.pc]

\* the record of an import_module call that returned module m
Returned(m) ==
  [name |-> modules[m].name, module |-> m, importer |-> Top.module, pass |-> Top.pass]

\* import_module, step 2: the name is on the module stack; the
\* CyclicDependencyException is caught nowhere and ends the process
ImportCyclic ==
  /\ AtImport
  /\ on_stack(module_stack, modules, module_name(ImportPath))
  /\ calls' = <<>>
  /\ status' = "cyclic"
  /\ stages' = Noted
  /\ UNCHANGED <<files, profile, loaded_modules, module_stack, modules, returned, err,
                 notModules>>

\* import_module, step 3: the module is loaded already and is returned; the
\* import statement of the evaluator pass binds its exportable names
ImportLoaded ==
  /\ AtImport
  /\ ~on_stack(module_stack, modules, module_name(ImportPath))
  /\ loaded(loaded_modules, module_name(ImportPath)) # 0
  /\ returned' = returned \cup {Returned(loaded(loaded_modules, module_name(ImportPath)))}
  /\ modules' = IF Top.pass = "interpret"
                THEN import_names(modules, Top.module,
                                  loaded(loaded_modules, module_name(ImportPath)))
                ELSE modules
  /\ calls' = [calls EXCEPT ![Len(calls)].pc = @ + 1]
  /\ stages' = Noted
  /\ UNCHANGED <<files, profile, loaded_modules, module_stack, status, err, notModules>>

\* import_module, step 4, when the loader finds no file: the error sink
\* ends the process
ImportMissing ==
  /\ AtImport
  /\ ~on_stack(module_stack, modules, module_name(ImportPath))
  /\ loaded(loaded_modules, module_name(ImportPath)) = 0
  /\ ImportPath \notin DOMAIN files
  /\ calls' = <<>>
  /\ status' = "exit"
  /\ stages' = Noted
  /\ UNCHANGED <<files, profile, loaded_modules, module_stack, modules, returned, err,
                 notModules>>

\* import_module, step 4: the module is loaded, registered and evaluated
ImportNew ==
  /\ AtImport
  /\ ~on_stack(module_stack, modules, module_name(ImportPath))
  /\ loaded(loaded_modules, module_name(ImportPath)) = 0
  /\ ImportPath \in DOMAIN files
  /\ modules' = Append(modules, Module(module_name(ImportPath), ImportPath))
  /\ loaded_modules' = [loaded_modules EXCEPT ![module_name(ImportPath)] = Len(modules) + 1]
  /\ module_stack' = Append(module_stack, Len(modules) + 1)
  /\ calls' = Append(calls, [module |-> Len(modules) + 1, pass |-> "lexer", pc |-> 0])
  /\ stages' = Noted
  /\ UNCHANGED <<files, profile, returned, status, err, notModules>>

\* _interpret_module: the end of resolver.resolve(ast) (the warning about
\* unused variables goes to the error sink), the check of self.err, then
\* Interpreter(...) and interpreter.interpret(ast) up to the first import
Interpret ==
  /\ Len(calls) > 0
  /\ ~AtImport
  /\ Top.pass = "resolve"
  /\ Top.pc >= 1
  /\ err' = (err \/ profile[modules[Top.module].path] = "unused")
  /\ IF aborts(err')
     THEN /\ calls' = <<>>
          /\ status' = "exit"
          /\ UNCHANGED <<modules, stages>>
     ELSE /\ calls' = [calls EXCEPT ![Len(calls)].pass = "interpret", ![Len(calls)].pc = 1]
          /\ modules' = [modules EXCEPT ![Top.module].evals = @ + 1,
                                        ![Top.module].scope = top_frame(modules, Top.module)]
          /\ stages' = Append(stages, [module |-> Top.module, stage |-> "evaluator",
                                       err |-> err'])
          /\ status' = status
  /\ UNCHANGED <<files, profile, loaded_modules, module_stack, returned, notModules>>

\* the caller's import_module call returns the module just evaluated
ReturnTo(cs, m) ==
  IF Len(cs) = 0 THEN returned
  ELSE returned \cup {[name |-> modules[m].name, module |-> m,
                       importer |-> cs[Len(cs)].module, pass |-> cs[Len(cs)].pass]}

\* Interpreter._export at the end of interpret()
exported(ms, m) ==
  [ms EXCEPT ![m].exportable_vars = bound_names(m, ms[m].scope), ![m].completed = TRUE]

\* the import statement of the importing evaluator pass goes on
imported(ms, cs, m) ==
  IF Len(cs) > 0 /\ cs[Len(cs)].pass = "interpret"
  THEN import_names(ms, cs[Len(cs)].module, m)
  ELSE ms

\* the end of interpret() and of evaluate_module: the names are exported,
\* the module leaves the stack and import_module returns it to the importer
Evaluated ==
  /\ Len(calls) > 0
  /\ ~AtImport
  /\ Top.pass = "interpret"
  /\ module_stack' = SubSeq(module_stack, 1, Len(module_stack) - 1)
  /\ returned' = ReturnTo(SubSeq(calls, 1, Len(calls) - 1), Top.module)
  /\ modules' = imported(exported(modules, Top.module), SubSeq(calls, 1, Len(calls) - 1),
                         Top.module)
  /\ calls' = IF Len(calls) = 1 THEN <<>>
              ELSE [SubSeq(calls, 1, Len(calls) - 1) EXCEPT ![Len(calls) - 1].pc = @ + 1]
  /\ status' = IF Len(calls) = 1 THEN "done" ELSE status
  /\ UNCHANGED <<files, profile, loaded_modules, stages, err, notModules>>

ModulesNext ==
  \/ Run \/ LexModule \/ ParseModule \/ ResolveModule
  \/ ImportCyclic \/ ImportLoaded \/ ImportMissing \/ ImportNew \/ Interpret \/ Evaluated

ModulesSpec == ModulesInit /\ [][ModulesNext]_vars

(***************************************************************************)
(* The lexer.  A text is a sequence of characters; positions are counted   *)
(* from 0 as in the source, so the character at position i is text[i + 1]. *)
(* One action is one iteration of the loop of get_tokens.                  *)
(***************************************************************************)
\* the value of a token that carries none
None == <<>>

Letters == {"a", "o", "r"}
\* _is_digit: a character in the range [0, 9]
is_digit(char) == \E i \in 1..Len(Digits) : Digits[i] = char
\* str.isspace for a character
isspace(char) == char \in {" ", "\t", "\n"}
\* str.isidentifier for a sequence of characters
isidentifier(chars) ==
  /\ Len(chars) > 0
  /\ chars[1] \in Letters
  /\ \A i \in 1..Len(chars) : chars[i] \in Letters \/ is_digit(chars[i])

\* Lexer.keywords: one of its entries
keywords == (<<"o", "r">> :> "OR")
\* Lexer.simple_tokens
simple_tokens ==
  ("(" :> "OP_PAR") @@ (")" :> "CL_PAR") @@ ("+" :> "PLUS") @@ ("-" :> "MINUS")
  @@ ("*" :> "TIMES") @@ ("/" :> "DIVIDE") @@ ("." :> "DOT") @@ ("=" :> "EQUAL")
  @@ (":" :> "COLON") @@ ("," :> "COMMA") @@ ("?" :> "QUESTION")

\* the bodies a line can have at any indentation: blank, a comment, an
\* identifier, a block opener
IndentedBodies == {<<>>, <<"#">>, <<"a">>, <<"a", ":">>}
\* the bodies a line can have at column 0: an unknown character, a `!`
\* alone, `!=`, a quote, a tab before an identifier, a `<`
FlushBodies == {<<"$">>, <<"!">>, <<"!", "=">>, <<"\"">>, <<"\t", "a">>, <<"<">>}
Spaces(n) == [i \in 1..n |-> " "]
LinesOfText == {Spaces(n) \o b : n \in 0..MaxIndent, b \in IndentedBodies} \cup FlushBodies
\* the lines joined by newline characters
RECURSIVE Join(_)
Join(ls) ==
  IF Len(ls) = 0 THEN <<>>
  ELSE IF Len(ls) = 1 THEN ls[1]
  ELSE ls[1] \o <<"\n">> \o Join(Tail(ls))
\* the input texts
Texts == {Join(ls) : ls \in UNION {[1..k -> LinesOfText] : k \in 0..MaxLines}}

\* Lexer(text, error_handler)
Lexer(text) == [NoLexer EXCEPT !.text = text, !.state = "scanning"]

\* self.error_handler.error(f"Line[{line}]: " + message)
lexical_error(lx, message) ==
  [lx EXCEPT !.errors = Append(@, [line |-> lx.line, message |-> message])]

is_eof(lx) == lx.curr_pos >= Len(lx.text)

\* self.text[self.curr_pos], inside the text
peek(lx) == lx.text[lx.curr_pos + 1]

\* self.curr_pos += 1; the character returned is the one before curr_pos
advance(lx) == [lx EXCEPT !.curr_pos = @ + 1]

add_token(lx, type, value) ==
  [lx EXCEPT !.tokens = Append(@, [value |-> value, line |-> lx.line, type |-> type])]

\* _match: the message of a failed mustMatch reads self._peek(), which
\* raises IndexError at the end of the text
match(lx, char, mustMatch) ==
  IF is_eof(lx) \/ peek(lx) # char
  THEN IF mustMatch
       THEN IF is_eof(lx)
            THEN [lx |-> [lx EXCEPT !.state = "raised"], ok |-> FALSE]
            ELSE [lx |-> lexical_error(lx, "Expected"), ok |-> FALSE]
       ELSE [lx |-> lx, ok |-> FALSE]
  ELSE [lx |-> advance(lx), ok |-> TRUE]

\* the text from start_pos up to curr_pos
lexeme(lx) == SubSeq(lx.text, lx.start_pos + 1, lx.curr_pos)

RECURSIVE handle_comments(_)
handle_comments(lx) ==
  IF ~is_eof(lx) /\ peek(lx) # "\n" THEN handle_comments(advance(lx)) ELSE lx

increment_line_counter(lx) ==
  IF ~is_eof(lx) /\ peek(lx) = "\n" THEN [lx EXCEPT !.line = @ + 1] ELSE lx

RECURSIVE handle_string(_)
handle_string(lx) ==
  IF ~is_eof(lx) /\ peek(lx) # "\""
  THEN handle_string(advance(increment_line_counter(lx)))
  ELSE IF is_eof(lx)
       THEN lexical_error(lx, "Unterminated string.")
       ELSE add_token(advance(lx), "STRING", SubSeq(lx.text, lx.start_pos + 2, lx.curr_pos))

RECURSIVE digits(_)
digits(lx) == IF ~is_eof(lx) /\ is_digit(peek(lx)) THEN digits(advance(lx)) ELSE lx

\* the token carries the digits read; float() of them is not modelled
number_token(lx) == add_token(lx, "NUMBER", lexeme(lx))

fraction(lx) ==
  IF ~is_eof(lx) /\ peek(lx) = "." THEN digits(advance(lx)) ELSE lx

handle_number(lx) == number_token(fraction(digits(lx)))

RECURSIVE handle_whitespace(_)
handle_whitespace(lx) ==
  IF ~is_eof(lx) /\ isspace(peek(lx)) /\ peek(lx) # "\n"
  THEN handle_whitespace(advance(lx))
  ELSE lx

\* the number of spaces _get_num_spaces counts from curr_pos on
RECURSIVE get_num_spaces(_)
get_num_spaces(lx) ==
  IF ~is_eof(lx) /\ peek(lx) = " " THEN 1 + get_num_spaces(advance(lx)) ELSE 0

identifier_token(lx) ==
  IF lexeme(lx) \in DOMAIN keywords
  THEN add_token(lx, keywords[lexeme(lx)], None)
  ELSE add_token(lx, "IDENTIFIER", lexeme(lx))

RECURSIVE handle_identifier(_)
handle_identifier(lx) ==
  IF ~is_eof(lx) /\ isidentifier(Append(lexeme(lx), peek(lx)))
  THEN handle_identifier(advance(lx))
  ELSE identifier_token(lx)

\* self.tokens[-2].type == TokenType.COLON; the index raises IndexError when
\* the list holds fewer than two tokens
has_last_two(lx) == Len(lx.tokens) >= 2
after_colon(lx) == lx.tokens[Len(lx.tokens) - 1].type = "COLON"

\* a lexer that opens a block at every deeper line
always_indents(lx, spaces) ==
  IF spaces <= lx.indent_pos
  THEN lx
  ELSE add_token([lx EXCEPT !.indent_stack = Append(@, lx.indent_pos),
                            !.indent_pos = spaces], "INDENT", spaces)

\* _increased_block_indent: the IndexError and the raised Exception are
\* both caught and reported
increased_block_indent(lx, spaces) ==
  IF spaces <= lx.indent_pos
  THEN lx
  ELSE IF ~has_last_two(lx) \/ ~after_colon(lx)
       THEN lexical_error(lx, "Can not indent without block creation.")
       ELSE add_token([lx EXCEPT !.indent_stack = Append(@, lx.indent_pos),
                                 !.indent_pos = spaces], "INDENT", spaces)

\* _same_block_indent: the IndexError is caught and dropped
same_block_indent(lx, spaces) ==
  IF spaces # lx.indent_pos
  THEN lx
  ELSE IF ~has_last_two(lx) \/ ~after_colon(lx)
       THEN lx
       ELSE lexical_error(lx, "Expect indentation after block creation.")

\* self.indent_pos = 0 if not self.indent_stack else self.indent_stack.pop()
pop_indent(lx) ==
  IF lx.indent_stack = <<>>
  THEN [lx EXCEPT !.indent_pos = 0]
  ELSE [lx EXCEPT !.indent_pos = lx.indent_stack[Len(lx.indent_stack)],
                  !.indent_stack = SubSeq(@, 1, Len(@) - 1)]

\* while spaces < self.indent_pos: a DEDENT, then the level is popped
RECURSIVE dedent(_, _)
dedent(lx, spaces) ==
  IF spaces < lx.indent_pos
  THEN dedent(pop_indent(add_token(lx, "DEDENT", lx.indent_pos)), spaces)
  ELSE lx

\* _less_block_indent: the IndexError is caught and dropped
less_block_indent(lx, spaces) ==
  IF spaces >= lx.indent_pos
  THEN lx
  ELSE IF ~has_last_two(lx)
       THEN lx
       ELSE IF after_colon(lx)
            THEN dedent(lexical_error(lx, "Can not dedent after block creation."), spaces)
            ELSE dedent(lx, spaces)

\* _handle_block up to the count of the spaces: the NEWLINE of a line that
\* is not empty, the line counter
end_line(lx) ==
  [(IF ~lx.empty_line THEN add_token(lx, "NEWLINE", None) ELSE lx)
     EXCEPT !.line = @ + 1, !.empty_line = TRUE]

\* a lexer for which empty lines and comments do affect blocks
any_line_indent(lx, spaces) ==
  less_block_indent(
    same_block_indent(increased_block_indent(lx, spaces), spaces), spaces)

\* _handle_block after the spaces were read: empty lines and comments do not
\* affect blocks
block_indent(lx, spaces) ==
  IF is_eof(lx) \/ peek(lx) = "#" \/ isspace(peek(lx))
  THEN lx
  ELSE less_block_indent(
         same_block_indent(increased_block_indent(lx, spaces), spaces), spaces)

read_spaces(lx, spaces) == block_indent([lx EXCEPT !.curr_pos = @ + spaces], spaces)

handle_block(lx) == read_spaces(end_line(lx), get_num_spaces(end_line(lx)))

\* a lexer that leaves the open blocks open at the end of the text
leave_open(lx) == lx

\* _close_last_block
RECURSIVE close_last_block(_)
close_last_block(lx) ==
  IF lx.indent_stack # <<>>
  THEN close_last_block(
         [add_token(lx, "DEDENT", lx.indent_pos)
            EXCEPT !.indent_pos = lx.indent_stack[Len(lx.indent_stack)],
                   !.indent_stack = SubSeq(@, 1, Len(@) - 1)])
  ELSE lx

not_empty(lx) == [lx EXCEPT !.empty_line = FALSE]

\* the token of `<`, `<=` or `<-`
less_token(lx) ==
  IF match(lx, "-", FALSE).ok
  THEN add_token(match(lx, "-", FALSE).lx, "ASSIGNMENT", None)
  ELSE IF match(lx, "=", FALSE).ok
       THEN add_token(match(lx, "=", FALSE).lx, "LESS_EQ", None)
       ELSE add_token(lx, "LESS", None)

greater_token(lx) ==
  IF match(lx, "=", FALSE).ok
  THEN add_token(match(lx, "=", FALSE).lx, "GREATER_EQ", None)
  ELSE add_token(lx, "GREATER", None)

\* `!`: an exception raised by _match leaves _get_token at once
unequal_token(m) ==
  IF m.lx.state = "raised"
  THEN m.lx
  ELSE not_empty(IF m.ok THEN add_token(m.lx, "UNEQUAL", None) ELSE m.lx)

\* _get_token after current = self._advance()
get_token_of(lx, current) ==
  IF isidentifier(<<current>>) THEN not_empty(handle_identifier(lx))
  ELSE IF current \in DOMAIN simple_tokens
       THEN not_empty(add_token(lx, simple_tokens[current], None))
  ELSE IF current = "<" THEN not_empty(less_token(lx))
  ELSE IF current = ">" THEN not_empty(greater_token(lx))
  ELSE IF current = "!" THEN unequal_token(match(lx, "=", TRUE))
  ELSE IF current = "#" THEN handle_comments(lx)
  ELSE IF current = "\"" THEN not_empty(handle_string(lx))
  ELSE IF is_digit(current) THEN not_empty(handle_number(lx))
  ELSE IF current = "\n" THEN handle_block(lx)
  ELSE IF isspace(current) THEN handle_whitespace(lx)
  ELSE lexical_error(lx, "Tried all automatons")

get_token(lx) == get_token_of(advance(lx), peek(lx))

LexerInit ==
  /\ \E text \in Texts : lexer = Lexer(text)
  /\ EvalIdle
  /\ LookupIdle
  /\ ModulesIdle
  /\ ParserIdle

\* one iteration of the loop of get_tokens
GetToken ==
  /\ lexer.state = "scanning"
  /\ ~is_eof(lexer)
  /\ lexer' = get_token([lexer EXCEPT !.start_pos = lexer.curr_pos])
  /\ UNCHANGED <<evalVars, lookup, modVars, parser>>

\* the end of get_tokens: the open blocks are closed, EOF is added and the
\* list is returned
get_tokens ==
  /\ lexer.state = "scanning"
  /\ is_eof(lexer)
  /\ lexer' = [add_token(close_last_block(lexer), "EOF", None) EXCEPT !.state = "returned"]
  /\ UNCHANGED <<evalVars, lookup, modVars, parser>>

LexerNext == GetToken \/ get_tokens

LexerSpec == LexerInit /\ [][LexerNext]_vars

(***************************************************************************)
(* The parser.  A token is a record of a type and a value; a token list    *)
(* holds the token types of Lexer.TokenType.  The parser state ps holds    *)
(* the list, the index, the position of the lookahead token, the errors    *)
(* reported, loop_count, thrown (an UnexpectedTokenException is on its way *)
(* to the handler) and decls, the log of the _declaration calls.  A parse  *)
(* function yields the state and the node it returns.                      *)
(***************************************************************************)
Tok(type, value) == [type |-> type, value |-> value]

\* a node of the tree: its class, the position of the token it holds (name,
\* operator, keyword), its child nodes, and new_var for assignments
Tree(node, tok, kids, flag) == [node |-> node, tok |-> tok, kids |-> kids, flag |-> flag]
\* the None a failed declaration leaves in the list of statements
NoTree == Tree("None", 0, <<>>, FALSE)

\* what a parse function returns
Parsed(ps, node) == [ps |-> ps, node |-> node]
\* the rest of a function after a call that may have thrown
Then(r, Rest(_)) ==
  Eager(r, LAMBDA done : IF done.ps.thrown THEN Parsed(done.ps, NoTree) ELSE Rest(done))

\* RecursiveDescentParser(tokens, error_handler)
Parser(tokens) == [NoParser EXCEPT !.tokens = tokens, !.state = "parsing"]

lookahead_type(ps) == ps.tokens[ps.lookahead].type

\* Parser.is_eof
parser_is_eof(ps) == lookahead_type(ps) = "EOF"

\* Parser.consume: the lookahead moves unless it was EOF
consume(ps) ==
  [ps EXCEPT !.index = @ + 1,
             !.lookahead = IF parser_is_eof(ps) THEN @ ELSE ps.index + 1]

\* Parser.advance: the state after it, and the position of the token it returns
parser_advance(ps) == IF parser_is_eof(ps) THEN ps ELSE consume(ps)
advanced(ps) == IF parser_is_eof(ps) THEN Len(ps.tokens) ELSE ps.lookahead

is_type_in(ps, token_types) == lookahead_type(ps) \in token_types

\* _parse_error: the error goes to the sink, and the exception is raised
\* unless throw is False
parse_error(ps, message, throw) ==
  [ps EXCEPT !.errors = Append(@, [at |-> ps.lookahead, message |-> message]),
             !.thrown = throw]

\* Parser.match
parser_match(ps, expected_type, message) ==
  IF is_type_in(ps, {expected_type}) THEN consume(ps) ELSE parse_error(ps, message, TRUE)

\* a parser that only tosses the mismatched token
toss_only(ps) == parser_advance(ps)

SyncTypes == {"DEF", "WHILE", "IF", "NEWVAR", "CONTINUE", "BREAK", "RETURN"}

\* the loop of _synchronize; sync_token is the position of the token that
\* was tossed last
RECURSIVE sync_loop(_, _)
sync_loop(ps, sync_token) ==
  IF parser_is_eof(ps) THEN ps
  ELSE IF ps.tokens[sync_token].type = "NEWLINE" THEN ps
  ELSE IF is_type_in(ps, SyncTypes) THEN ps
  ELSE sync_loop(parser_advance(ps), advanced(ps))

synchronize(ps) == sync_loop(parser_advance(ps), advanced(ps))

\* the most entries a parameter or argument list may hold
MaxEntries == 127

\* the operators of the binary_node levels, from _logic_or to _factor
LevelTypes ==
  <<{"OR"}, {"AND"}, {"UNEQUAL", "EQUAL"}, {"LESS", "LESS_EQ", "GREATER", "GREATER_EQ"},
    {"PLUS", "MINUS"}, {"TIMES", "DIVIDE"}>>
LevelNode ==
  <<"LogicalExpr", "LogicalExpr", "BinaryExpr", "BinaryExpr", "BinaryExpr", "BinaryExpr">>

RECURSIVE declaration(_)
RECURSIVE expression(_)
RECURSIVE binary_node(_, _)
RECURSIVE binary_wrapper(_, _)
RECURSIVE wrapped(_, _, _)
RECURSIVE unary(_)
RECURSIVE call_loop(_)
RECURSIVE args_times(_, _)
RECURSIVE params_times(_, _)
RECURSIVE assign(_, _)
RECURSIVE block_loop(_)

\* _formal_params; the list is the kids of the node
next_param(r) ==
  IF ~is_type_in(r.ps, {"IDENTIFIER"})
  THEN Parsed(parse_error(r.ps, "Expect identifier in function parameters.", TRUE), NoTree)
  ELSE Parsed(parser_advance(r.ps),
              [r.node EXCEPT !.kids = Append(@, Tree("Param", advanced(r.ps), <<>>, FALSE))])

\* the while loop of _formal_params has ended
params_ended(r) == r.ps.thrown \/ ~is_type_in(r.ps, {"COMMA"})

\* one iteration of the loop
param_step(r) ==
  IF Len(r.node.kids) > MaxEntries
  THEN next_param(Parsed(parse_error(parser_advance(r.ps),
                                     "Maximum number of parameters is 127.", FALSE), r.node))
  ELSE next_param(Parsed(parser_advance(r.ps), r.node))

\* up to k iterations of the loop, as two halves
params_times(k, r) ==
  IF k = 0 \/ params_ended(r) THEN r
  ELSE IF k = 1 THEN param_step(r)
  ELSE Eager(params_times(k \div 2, r), LAMBDA h : params_times(k - k \div 2, h))

\* the loop: every iteration consumes a token
params_loop(r) == Eager(r, LAMBDA first : params_times(Len(first.ps.tokens), first))

more_params(r) == params_loop(next_param(r))

formal_params(ps) ==
  IF is_type_in(ps, {"CL_PAR"})
  THEN Parsed(ps, Tree("params", 0, <<>>, FALSE))
  ELSE more_params(Parsed(ps, Tree("params", 0, <<>>, FALSE)))

\* _primary; the token types THIS and SUPER are no members of TokenType
primary(ps) ==
  IF is_type_in(ps, {"NUMBER", "STRING"})
  THEN Parsed(parser_advance(ps), Tree("Literal", advanced(ps), <<>>, FALSE))
  ELSE IF is_type_in(ps, {"NIL", "TRUE", "FALSE"})
  THEN Parsed(consume(ps), Tree("Literal", ps.lookahead, <<>>, FALSE))
  ELSE IF is_type_in(ps, {"OP_PAR"})
  THEN Then(expression(consume(ps)),
            LAMBDA r : Parsed(parser_match(r.ps, "CL_PAR", "Unclosed '('."),
                              Tree("GroupingExpr", 0, <<r.node>>, FALSE)))
  ELSE IF is_type_in(ps, {"IDENTIFIER"})
  THEN Parsed(parser_advance(ps), Tree("VarAccess", advanced(ps), <<>>, FALSE))
  ELSE Parsed(parse_error(ps, "Token can't be used in an expression.", TRUE), NoTree)

\* _actual_params; the list is the kids of the node
args_ended(r) == r.ps.thrown \/ ~is_type_in(r.ps, {"COMMA"})

\* one iteration of the while loop
arg_step(r) ==
  With(expression(parser_advance(r.ps)),
       LAMBDA e : Parsed(e.ps, [r.node EXCEPT !.kids = Append(@, e.node)]))

\* up to k iterations of the loop, as two halves
args_times(k, r) ==
  IF k = 0 \/ args_ended(r) THEN r
  ELSE IF k = 1 THEN arg_step(r)
  ELSE Eager(args_times(k \div 2, r), LAMBDA h : args_times(k - k \div 2, h))

\* the loop, and the test after it
args_loop(r) ==
  With(Eager(r, LAMBDA first : args_times(Len(first.ps.tokens), first)),
       LAMBDA l : IF l.ps.thrown THEN l
                  ELSE IF Len(l.node.kids) > MaxEntries
                  THEN Parsed(parse_error(l.ps, "Max number of arguments is 127.", FALSE), l.node)
                  ELSE l)

actual_params(ps) ==
  IF is_type_in(ps, {"CL_PAR"})
  THEN Parsed(ps, Tree("args", 0, <<>>, FALSE))
  ELSE args_loop(With(expression(ps),
                      LAMBDA e : Parsed(e.ps, Tree("args", 0, <<e.node>>, FALSE))))

\* _handle_call: expr is the callee
handle_call(expr) ==
  Then(actual_params(parser_advance(expr.ps)),
       LAMBDA a : Parsed(parser_match(a.ps, "CL_PAR", "Expected ')' after function call."),
                         Tree("CallExpr", a.ps.lookahead, <<expr.node>> \o a.node.kids, FALSE)))

\* _handle_property_acc
handle_property_acc(expr) ==
  With(parser_advance(expr.ps),
       LAMBDA ps : Parsed(parser_match(ps, "IDENTIFIER", "Expect identifier after '.'."),
                          Tree("PropertyAccess", ps.lookahead, <<expr.node>>, FALSE)))

\* the loop of _call
call_loop(expr) ==
  IF expr.ps.thrown THEN expr
  ELSE IF is_type_in(expr.ps, {"OP_PAR"}) THEN call_loop(handle_call(expr))
  ELSE IF is_type_in(expr.ps, {"DOT"}) THEN call_loop(handle_property_acc(expr))
  ELSE expr

parse_call(ps) == call_loop(primary(ps))

\* _unary
unary(ps) ==
  IF is_type_in(ps, {"NOT", "MINUS"})
  THEN Then(unary(parser_advance(ps)),
            LAMBDA r : Parsed(r.ps, Tree("UnaryExpr", advanced(ps), <<r.node>>, FALSE)))
  ELSE parse_call(ps)

\* the while loop of binary_wrapper at a level; left is what f(parser)
\* returned, and the right operand is f(parser) again
binary_wrapper(level, left) ==
  IF left.ps.thrown THEN left
  ELSE IF is_type_in(left.ps, LevelTypes[level])
  THEN binary_wrapper(level,
         With(binary_node(level + 1, parser_advance(left.ps)),
              LAMBDA right : Parsed(right.ps, Tree(LevelNode[level], advanced(left.ps),
                                                   <<left.node, right.node>>, FALSE))))
  ELSE left

\* the loops of the levels from the innermost, level, out to the level
\* first, each on what the level below it returned; when the lookahead is
\* an operator of none of them, every loop ends before its first iteration
wrapped(first, level, left) ==
  IF left.ps.thrown \/ ~is_type_in(left.ps, UNION {LevelTypes[l] : l \in first..level})
  THEN left
  ELSE Eager(binary_wrapper(level, left), LAMBDA l : wrapped(first, level - 1, l))

\* binary_node: the decorated functions _logic_or (level 1) to _factor
\* (level 6); f of a level is the level after it, f of _factor is _unary, so
\* that a level begins with a call of _unary and runs the loops from
\* _factor's out to its own
binary_node(level, ps) ==
  Eager(unary(ps), LAMBDA operand : wrapped(level, Len(LevelTypes), operand))

\* _lambda: a lambda is a FunctionDecl without a name whose body returns
\* the expression
lambda_body(token, params) ==
  With(parser_match(params.ps, "COLON", "Expect ':' after lambda expression."),
       LAMBDA ps :
         IF ps.thrown THEN Parsed(ps, NoTree)
         ELSE Then(expression(ps),
                   LAMBDA e : Parsed(e.ps, Tree("FunctionDecl", 0,
                                <<params.node, Tree("ReturnStmt", token, <<e.node>>, FALSE)>>,
                                FALSE))))

parse_lambda(ps) ==
  IF is_type_in(ps, {"QUESTION"})
  THEN IF is_type_in(parser_advance(ps), {"IDENTIFIER"})
       THEN Then(formal_params(parser_advance(ps)), LAMBDA p : lambda_body(advanced(ps), p))
       ELSE lambda_body(advanced(ps), Parsed(parser_advance(ps), Tree("params", 0, <<>>, FALSE)))
  ELSE binary_node(1, ps)

\* _expression
expression(ps) == parse_lambda(ps)

\* _assign: the expression part of an assignment
assign(new_var, ps) ==
  Then(expression(ps),
       LAMBDA expr :
         IF ~is_type_in(expr.ps, {"ASSIGNMENT"}) THEN expr
         ELSE IF expr.node.node = "VarAccess"
         THEN Then(assign(new_var, parser_advance(expr.ps)),
                   LAMBDA v : Parsed(v.ps, Tree("Assign", expr.node.tok, <<v.node>>, new_var)))
         ELSE IF expr.node.node = "PropertyAccess"
         THEN Then(assign(new_var, parser_advance(expr.ps)),
                   LAMBDA v : Parsed(v.ps, Tree("SetProperty", expr.node.tok,
                                                <<expr.node.kids[1], v.node>>, FALSE)))
         ELSE Then(assign(new_var, parse_error(parser_advance(expr.ps),
                                               "Can't assign to this left hand side.", FALSE)),
                   LAMBDA v : Parsed(v.ps, expr.node)))

\* the error of `baka` before a property
baka_property(ps, new_var) ==
  IF new_var THEN parse_error(ps, "Can't use 'baka' when setting properties.", FALSE) ELSE ps

\* _assign_stmt: expr is the target, the lookahead the assignment token
assign_stmt(expr, new_var) ==
  IF expr.node.node = "VarAccess"
  THEN Then(assign(new_var, parser_advance(expr.ps)),
            LAMBDA v : Parsed(parser_match(v.ps, "NEWLINE", "Expect newline character after assignment."),
                              Tree("AssStmt", expr.node.tok, <<v.node>>, new_var)))
  ELSE IF expr.node.node = "PropertyAccess"
  THEN Then(assign(new_var, baka_property(parser_advance(expr.ps), new_var)),
            LAMBDA v : Parsed(parser_match(v.ps, "NEWLINE", "Expect newline character after setting a property."),
                              Tree("SetProperty", expr.node.tok, <<expr.node.kids[1], v.node>>, FALSE)))
  ELSE Parsed(parse_error(parser_advance(expr.ps), "Can't assign to this left hand side.", FALSE),
              NoTree)

\* _new_var
new_var_stmt(ps) ==
  Then(expression(parser_advance(ps)),
       LAMBDA expr :
         IF ~is_type_in(expr.ps, {"ASSIGNMENT"})
         THEN Parsed(parse_error(expr.ps, "Can only use 'baka' in assignments.", TRUE), NoTree)
         ELSE assign_stmt(expr, TRUE))

\* _expression_stmt
expression_stmt(expr) ==
  Parsed(parser_match(expr.ps, "NEWLINE", "Expect newline character after statement."),
         Tree("ExprStmt", 0, <<expr.node>>, FALSE))

\* the end of _block_stmt, after the loop
block_end(r, ps) ==
  IF ps.thrown THEN Parsed(ps, NoTree)
  ELSE IF Len(r.node.kids) = 0
  THEN Parsed(parse_error(ps, "Block may not be empty.", FALSE), r.node)
  ELSE Parsed(ps, r.node)

\* the loop of _block_stmt and what follows it; the statements are the kids
\* of the node
block_loop(r) ==
  IF is_type_in(r.ps, {"DEDENT", "EOF"})
  THEN block_end(r, parser_match(r.ps, "DEDENT", "Expect dedent after block end."))
  ELSE Eager(declaration(r.ps),
             LAMBDA d : block_loop(Parsed(d.ps, [r.node EXCEPT !.kids = Append(@, d.node)])))

\* the second match of _block_stmt
block_indent_token(ps) ==
  IF ps.thrown THEN ps
  ELSE parser_match(ps, "INDENT", "Expect indent after block creation.")

block_body(ps) ==
  IF ps.thrown THEN Parsed(ps, NoTree)
  ELSE block_loop(Parsed(ps, Tree("stmts", 0, <<>>, FALSE)))

\* _block_stmt: the lookahead is the colon
block_stmt(ps) ==
  block_body(block_indent_token(parser_match(parser_advance(ps), "NEWLINE",
                                             "Expect newline character after colon.")))

\* a block after a condition or a header: the colon is checked first
colon_block(ps, message) ==
  IF ~is_type_in(ps, {"COLON"})
  THEN Parsed(parse_error(ps, message, TRUE), NoTree)
  ELSE [block_stmt(ps) EXCEPT !.node = Tree("BlockStmt", 0, @.kids, FALSE)]

\* _break_stmt and _continue_stmt
loop_exit_stmt(ps, node, word) ==
  With(IF ps.loop_count <= 0 THEN parse_error(ps, word, FALSE) ELSE ps,
       LAMBDA p : Parsed(parser_match(parser_advance(p), "NEWLINE", "Expect newline character."),
                         Tree(node, advanced(p), <<>>, FALSE)))

break_stmt(ps) == loop_exit_stmt(ps, "BreakStmt", "Can only use yamero in a loop body.")
continue_stmt(ps) == loop_exit_stmt(ps, "ContinueStmt", "Can only use kowai in a loop body.")

\* _return_stmt
return_stmt(ps) ==
  IF is_type_in(parser_advance(ps), {"NEWLINE"})
  THEN Parsed(parser_match(parser_advance(ps), "NEWLINE", "Expect newline character after return."),
              Tree("ReturnStmt", advanced(ps), <<>>, FALSE))
  ELSE Then(expression(parser_advance(ps)),
            LAMBDA e : Parsed(parser_match(e.ps, "NEWLINE", "Expect newline character after return."),
                              Tree("ReturnStmt", advanced(ps), <<e.node>>, FALSE)))

\* a _while_stmt without the finally clause
never_leaves(r) == r

\* the finally clause of _while_stmt
end_while(r) == [r EXCEPT !.ps.loop_count = @ - 1]

\* _while_stmt
while_stmt(ps) ==
  end_while(
    Then(expression(parser_advance([ps EXCEPT !.loop_count = @ + 1])),
         LAMBDA c :
           Then(colon_block(c.ps, "Expect ':' for block creation after while."),
                LAMBDA b : Parsed(b.ps, Tree("WhileStmt", 0, <<c.node, b.node>>, FALSE)))))

\* the else part of _if_stmt
else_block(c, b) ==
  IF is_type_in(b.ps, {"ELSE"})
  THEN Then(colon_block(parser_advance(b.ps), "Expect ':' for block creation after else."),
            LAMBDA o : Parsed(o.ps, Tree("IfStmt", 0, <<c.node, b.node, o.node>>, FALSE)))
  ELSE Parsed(b.ps, Tree("IfStmt", 0, <<c.node, b.node>>, FALSE))

\* _if_stmt
if_stmt(ps) ==
  Then(expression(parser_advance(ps)),
       LAMBDA c : Then(colon_block(c.ps, "Expect ':' for block creation after if."),
                       LAMBDA b : else_block(c, b)))

\* _statement
statement(ps) ==
  IF is_type_in(ps, {"IF"}) THEN if_stmt(ps)
  ELSE IF is_type_in(ps, {"WHILE"}) THEN while_stmt(ps)
  ELSE IF is_type_in(ps, {"BREAK"}) THEN break_stmt(ps)
  ELSE IF is_type_in(ps, {"CONTINUE"}) THEN continue_stmt(ps)
  ELSE IF is_type_in(ps, {"RETURN"}) THEN return_stmt(ps)
  ELSE IF is_type_in(ps, {"NEWVAR"}) THEN new_var_stmt(ps)
  ELSE Then(expression(ps),
            LAMBDA expr : IF is_type_in(expr.ps, {"ASSIGNMENT"})
                          THEN assign_stmt(expr, FALSE)
                          ELSE expression_stmt(expr))

\* _function after the name: the parameters and the body
function_rest(name, ps) ==
  IF ps.thrown THEN Parsed(ps, NoTree)
  ELSE Then(formal_params(ps),
            LAMBDA p :
              With(parser_match(p.ps, "CL_PAR", "Expect ')' after function parameters."),
                   LAMBDA q :
                     IF q.thrown THEN Parsed(q, NoTree)
                     ELSE Then(colon_block(q, "Expect ':' for block creation after function parameters."),
                               LAMBDA b : Parsed(b.ps, Tree("FunctionDecl", name,
                                                            <<p.node, b.node>>, FALSE)))))

\* _function
function(ps) ==
  IF ~is_type_in(ps, {"IDENTIFIER"})
  THEN Parsed(parse_error(ps, "Expect identifier after 'desu'.", TRUE), NoTree)
  ELSE function_rest(advanced(ps),
                     parser_match(parser_advance(ps), "OP_PAR", "Expect '(' after function name."))

\* _function_decl
function_decl(ps) == function(parser_advance(ps))

\* the entry of the log for a _declaration call: where it began and ended,
\* whether it ended in _synchronize, at which token the exception rose, and
\* loop_count when it began and when it ended
logged(ps, start, recovered, loops) ==
  [ps EXCEPT !.decls = Append(@, [start |-> start, end |-> ps.lookahead,
                                   recovered |-> recovered,
                                   at |-> IF recovered THEN ps.errors[Len(ps.errors)].at ELSE 0,
                                   loops |-> loops, loops_end |-> ps.loop_count])]

\* the except clause of _declaration
declared(start, loops, r) ==
  IF r.ps.thrown
  THEN Parsed(logged(synchronize([r.ps EXCEPT !.thrown = FALSE]), start, TRUE, loops), NoTree)
  ELSE Parsed(logged(r.ps, start, FALSE, loops), r.node)

\* _declaration; the token types DECORATOR and CLASS are no members of
\* TokenType
declaration(ps) ==
  declared(ps.lookahead, ps.loop_count,
           IF is_type_in(ps, {"DEF"}) THEN function_decl(ps) ELSE statement(ps))

\* the token lists: up to MaxPhrases of these runs of tokens, then EOF
Phrases ==
  LET a == Tok("IDENTIFIER", "a")
      b == Tok("IDENTIFIER", "b")
      one == Tok("NUMBER", "1")
      nl == Tok("NEWLINE", "")
      T(type) == Tok(type, "")
  IN {<<a, nl>>,
      <<a, T("ASSIGNMENT"), one, T("ASSIGNMENT"), one, nl>>,
      <<b, b>>,
      <<T("WHILE"), a, T("COLON"), nl, T("INDENT")>>,
      <<T("DEDENT")>>,
      <<T("BREAK"), nl>>,
      <<T("OP_PAR")>>,
      <<T("DEF"), a, T("OP_PAR"), b, T("CL_PAR"), T("COLON"), nl, T("INDENT")>>,
      <<nl>>,
      <<T("NEWVAR")>>,
      <<T("RETURN"), b, nl>>,
      <<T("COLON")>>,
      <<T("CONTINUE"), nl>>,
      <<T("WHILE")>>,
      <<T("WHILE"), a, T("COLON"), nl, T("INDENT"), T("WHILE"), b, b, nl>>}
RECURSIVE Concat(_)
Concat(ps) == IF Len(ps) = 0 THEN <<>> ELSE ps[1] \o Concat(Tail(ps))
TokenLists ==
  {Concat(ps) \o <<Tok("EOF", "")>> : ps \in UNION {[1..k -> Phrases] : k \in 0..MaxPhrases}}

\* a function declaration with n parameters and a call with n arguments
Entries(n) ==
  [i \in 1..(2 * n - 1) |-> IF i % 2 = 1 THEN Tok("IDENTIFIER", "b") ELSE Tok("COMMA", "")]
LongDecl(n) ==
  <<Tok("DEF", ""), Tok("IDENTIFIER", "a"), Tok("OP_PAR", "")>> \o Entries(n)
    \o <<Tok("CL_PAR", ""), Tok("COLON", ""), Tok("NEWLINE", ""), Tok("INDENT", ""),
         Tok("IDENTIFIER", "a"), Tok("NEWLINE", ""), Tok("DEDENT", ""), Tok("EOF", "")>>
LongCall(n) ==
  <<Tok("IDENTIFIER", "a"), Tok("OP_PAR", "")>> \o Entries(n)
    \o <<Tok("CL_PAR", ""), Tok("NEWLINE", ""), Tok("EOF", "")>>
ListLengths == (MaxEntries - MaxExtra)..(MaxEntries + MaxExtra)
LongLists == {LongDecl(n) : n \in ListLengths} \cup {LongCall(n) : n \in ListLengths}

ParserInit ==
  /\ \E tokens \in TokenLists \cup LongLists : parser = Parser(tokens)
  /\ EvalIdle
  /\ LookupIdle
  /\ ModulesIdle
  /\ LexerIdle

\* stmts.append(self._declaration()); an exception that leaves _declaration
\* leaves parse()
appended(r) ==
  [r.ps EXCEPT !.stmts = Append(@, r.node),
               !.state = IF r.ps.thrown THEN "raised" ELSE "parsing"]

\* one iteration of the loop of parse()
ParseDeclaration ==
  /\ parser.state = "parsing"
  /\ ~parser_is_eof(parser)
  /\ parser' = appended(declaration(parser))
  /\ UNCHANGED <<evalVars, lookup, modVars, lexer>>

\* the end of parse(): Stmts(stmts) is returned
parse ==
  /\ parser.state = "parsing"
  /\ parser_is_eof(parser)
  /\ parser' = [parser EXCEPT !.state = "returned"]
  /\ UNCHANGED <<evalVars, lookup, modVars, lexer>>

ParserNext == ParseDeclaration \/ parse

ParserSpec == ParserInit /\ [][ParserNext]_vars

(***************************************************************************)
(* The pipeline of _interpret_module on the value scripts: the parser      *)
(* builds the tree from the tokens of the text, and the tree is what the   *)
(* resolver and the evaluator walk.  Load identifies the parsed tree with  *)
(* the script of the node table that has the same shape.                   *)
(***************************************************************************)
\* the token the lexer emits for the text of a literal
literal_token(value) ==
  CASE value.t = "nil" -> Tok("NIL", "")
    [] value.t = "bool" -> Tok(IF value.v = 1 THEN "TRUE" ELSE "FALSE", "")
    [] value.t = "num" -> Tok("NUMBER", NatStr(value.v))
    [] value.t = "str" -> Tok("STRING", value.s)
\* _primary: the value of the Literal node made of a token
literal_value(token) ==
  CASE token.type = "NIL" -> Nil
    [] token.type = "TRUE" -> Bool(TRUE)
    [] token.type = "FALSE" -> Bool(FALSE)
    [] token.type = "NUMBER" -> Num(CHOOSE n \in 0..9 : NatStr(n) = token.value)
    [] token.type = "STRING" -> Str(token.value)

\* the tokens of the three value scripts over the literals a and b
ScriptTokens(a, b) ==
  LET x == Tok("IDENTIFIER", "x")
      y == Tok("IDENTIFIER", "y")
      v == Tok("IDENTIFIER", "v")
      gets == Tok("ASSIGNMENT", "")
      nl == Tok("NEWLINE", "")
      eof == Tok("EOF", "")
  IN {<<x, gets, y, gets, literal_token(a), nl, x, gets, y, gets, literal_token(b), nl,
        x, Tok("EQUAL", ""), y, nl, eof>>,
      <<v, gets, literal_token(a), Tok("PLUS", ""), literal_token(b), nl, v, nl, eof>>,
      <<Tok("IDENTIFIER", "print"), Tok("OP_PAR", ""), literal_token(a), Tok("CL_PAR", ""),
        nl, eof>>}

RECURSIVE Denotes(_, _, _, _, _)
\* the tree is the node n of the table, with a and b for the drawn literals
Denotes(tokens, tree, n, a, b) ==
  /\ tree.node = AST[n].k
  /\ tree.flag = AST[n].flag
  /\ CASE tree.node \in {"AssStmt", "Assign", "VarAccess"} ->
            tokens[tree.tok].value = AST[n].name
       [] tree.node \in {"BinaryExpr", "LogicalExpr"} ->
            tokens[tree.tok].type = AST[n].name
       [] tree.node = "Literal" ->
            literal_value(tokens[tree.tok])
              = (IF n \in DrawnA THEN a ELSE IF n \in DrawnB THEN b ELSE AST[n].lit)
       [] OTHER -> TRUE
  /\ Len(tree.kids) = Len(AST[n].kids)
  /\ \A i \in 1..Len(tree.kids) : Denotes(tokens, tree.kids[i], AST[n].kids[i], a, b)

PipelineInit ==
  /\ \E a, b \in LiteralValues : \E tokens \in ScriptTokens(a, b) : parser = Parser(tokens)
  /\ EvalIdle
  /\ LookupIdle
  /\ ModulesIdle
  /\ LexerIdle

\* _interpret_module after parse() returned without a reported error: the
\* tree goes to the resolver and the interpreter of the module
Load ==
  /\ parser.state = "returned"
  /\ Len(parser.errors) = 0
  /\ phase = "idle"
  /\ \E s \in ValueScripts : \E a, b \in LiteralValues :
       /\ Len(parser.stmts) = Len(s)
       /\ \A i \in 1..Len(s) : Denotes(parser.tokens, parser.stmts[i], s[i], a, b)
       /\ parser.tokens \in ScriptTokens(a, b)
       /\ script' = s
       /\ inA' = a
       /\ inB' = b
  /\ phase' = "parsed"
  /\ resolved_vars' = [n \in NodeIds |-> NoDepth]
  /\ envs' = <<Frame(0, "module", 0)>>
  /\ environment' = 1
  /\ UNCHANGED <<ip, err, funcs, classes, objs, exportable_vars, out, trace, lookup,
                 modVars, lexer, parser>>

PipelineNext == ParseDeclaration \/ parse \/ Load \/ Next

PipelineSpec == PipelineInit /\ [][PipelineNext]_vars

(***************************************************************************)
(* The properties.                                                         *)
(***************************************************************************)
\* C1: each time the evaluator executes a node with a recorded depth k,
\* following k parent links from the current frame reaches a frame that
\* holds a binding of the node's name.
C1_DepthReachesBinding == \A d \in trace.depths : d.ok

\* the value of the right operand b of the logic script
ValueOfB == envs[1].bindings["b"]

\* C2: `a or b` is a when a is truthy, and then b is not evaluated; else b
\* is evaluated exactly once and is the result; `a and b` is a when a is
\* falsy, and then b is not evaluated; else b is evaluated exactly once and
\* is the result.
C2_ShortCircuit ==
  \A l \in trace.logic :
    IF boolean_eval(l.left) = (l.op = "OR")
    THEN l.val = l.left /\ trace.right[AST[l.n].kids[2]] = 0
    ELSE l.val = ValueOfB /\ trace.right[AST[l.n].kids[2]] = 1

\* C3: the truthiness test is false for exactly nil and false.
C3_Truthiness ==
  \A t \in trace.tests : t.truthy = (t.val \notin {Nil, Bool(FALSE)})

\* the counters: the functions that declarations of inc produced
IncFuncs ==
  {f \in 1..Len(funcs) : funcs[f].origin = "decl" /\ AST[funcs[f].node].name = "inc"}
CallFrames(f) == {e \in 1..Len(envs) : envs[e].kind = "call" /\ envs[e].fn = f}

C5_ConstructorInvoked ==
  \A m \in trace.made : get_method(classes, m.cls, "shison") # 0 => m.inits = 1

RECURSIVE Ancestry(_, _), AncestryOfAll(_, _, _)
\* the class, then the whole ancestry of each declared superclass, in the
\* declared order
Ancestry(cs, c) == <<c>> \o AncestryOfAll(cs, cs[c].super_cls, 1)
AncestryOfAll(cs, sups, i) ==
  IF i > Len(sups) THEN <<>>
  ELSE Ancestry(cs, sups[i]) \o AncestryOfAll(cs, sups, i + 1)

\* the method of the first class in the order that defines the name, 0 if
\* none does
FirstDefining(cs, order, name) ==
  IF \A i \in 1..Len(order) : cs[order[i]].methods[name] = 0 THEN 0
  ELSE cs[order[CHOOSE i \in 1..Len(order) :
                  /\ cs[order[i]].methods[name] # 0
                  /\ \A j \in 1..(i - 1) : cs[order[j]].methods[name] = 0]].methods[name]

\* C6: method lookup returns the method of the first class that defines the
\* name in the order: the class itself, then the declared superclasses left
\* to right, each with its whole ancestry; none only if no class defines it.
C6_MethodLookup ==
  lookup.cls # 0 =>
    lookup.found = FirstDefining(lookup.classes, Ancestry(lookup.classes, lookup.cls), "m")

\* a lookup that found the method above the first superclass although the
\* second superclass defines the method itself
C6_Witness ==
  /\ lookup.cls # 0
  /\ Len(lookup.classes[lookup.cls].super_cls) = 2
  /\ lookup.classes[lookup.cls].methods["m"] = 0
  /\ lookup.classes[lookup.classes[lookup.cls].super_cls[1]].methods["m"] = 0
  /\ lookup.classes[lookup.classes[lookup.cls].super_cls[2]].methods["m"] # 0
  /\ lookup.found # 0
  /\ lookup.found # lookup.classes[lookup.cls].super_cls[2]

\* C7: a property read of an existing field returns the stored value as it
\* was stored.
C7_FieldReadReturnsStored == \A rd \in trace.reads : rd.returned = rd.stored

\* C8: haha.m in a method invoked on receiver r is the first method named m
\* in the ancestries of the declared superclasses, left to right, bound to
\* r; an error is reported when there is none.
C8_SuperMethod ==
  \A sr \in trace.supers :
    /\ sr.ok
    /\ sr.sup.t = "supers"
    /\ sr.method = FirstDefining(classes,
                     AncestryOfAll(classes, classes[sr.sup.v].super_cls, 1), AST[sr.n].name)
    /\ sr.method # 0 =>
         /\ sr.this = sr.recv
         /\ funcs[sr.bound].node = funcs[sr.method].node
         /\ envs[funcs[sr.bound].closure].bindings["watashi"] = sr.recv

\* C9: no loop is ended or restarted by a break or continue raised inside a
\* function call made from it.
C9_NoLoopExitAcrossCall == ~trace.crossed

\* C10: import_module returns the same Module object for a name every time,
\* and the body of a returned module was evaluated exactly once.
C10_ModuleIdempotence ==
  /\ \A r1, r2 \in returned : r1.name = r2.name => r1.module = r2.module
  /\ \A m \in 1..Len(modules) : modules[m].evals <= 1
  /\ \A r \in returned : modules[r.module].evals = 1

\* a module returned to two importers, once to a resolver pass and once to
\* an evaluator pass
C10_Witness ==
  \E r1, r2 \in returned :
    /\ r1.module = r2.module
    /\ r1.importer # r2.importer
    /\ r1.pass = "resolve"
    /\ r2.pass = "interpret"

\* the import statement the running activation is at names a module whose
\* name is that of a module on the evaluation stack
CyclicRequest ==
  /\ AtImport
  /\ \E i \in 1..Len(module_stack) :
       modules[module_stack[i]].name = ImportPath[Len(ImportPath)]

\* C11: an import of a module whose name is on the evaluation stack raises
\* the cyclic-dependency error: the process ends with it, no module is
\* returned, none is created and none is evaluated again.
C11_CyclicImport ==
  [][CyclicRequest =>
       /\ status' = "cyclic"
       /\ returned' = returned
       /\ modules' = modules
       /\ loaded_modules' = loaded_modules]_vars

\* main imports a module that imports main, and the error ended the run
C11_Witness ==
  /\ status = "cyclic"
  /\ Len(module_stack) >= 2
  /\ \A m \in 1..Len(modules) : modules[m].evals = 0

\* an import statement of an evaluator pass completed in this step: the
\* activation i of the importer went on to its next statement
ImportDone(i) ==
  /\ i = Len(calls')
  /\ i <= Len(calls)
  /\ calls[i].pass = "interpret"
  /\ calls'[i].pass = "interpret"
  /\ calls'[i].pc = calls[i].pc + 1

\* the module the import statement of activation i asked for
ImportedBy(i) ==
  loaded_modules'[module_name(files[modules[calls[i].module].path][calls[i].pc])]

\* C12: the exportable names of a module whose evaluation completed are
\* exactly the names bound in its top frame; an import statement binds, in
\* the importer's top frame, every exportable name of the imported module to
\* the value it has in the imported module's top frame.
C12_Exports ==
  /\ [](\A m \in 1..Len(modules) :
          IF modules[m].completed
          THEN modules[m].exportable_vars =
                 {n \in ScopeNames : modules[m].scope[n] # NoValue}
          ELSE modules[m].exportable_vars = {})
  /\ [][\A i \in 1..Len(calls) :
          ImportDone(i) =>
            \A n \in modules'[ImportedBy(i)].exportable_vars :
              modules'[calls[i].module].scope[n] = modules'[ImportedBy(i)].scope[n]]_vars

\* main ended with y of one imported module and x of another, which the
\* first had imported itself
C12_Witness ==
  /\ status = "done"
  /\ \E m, k \in 2..Len(modules) :
       /\ m # k
       /\ modules[1].scope["y"] = [module |-> m, name |-> "y"]
       /\ modules[1].scope["x"] = [module |-> k, name |-> "x"]
       /\ modules[1].exportable_vars = ScopeNames

StageOrder == <<"lexer", "parser", "resolver", "evaluator">>
\* the stages that ran for module m, in the order they started
StagesOf(m) == SelectSeq(stages, LAMBDA e : e.module = m /\ e.stage # "statement")

\* C13: the stages of a module run in the order lexer, parser, resolver,
\* evaluator, each at most once; the parser, the resolver and the evaluator
\* start, and a statement is evaluated, only when no non-runtime error has
\* been recorded.
C13_PipelineOrder ==
  /\ \A m \in 1..Len(modules) :
       /\ Len(StagesOf(m)) <= Len(StageOrder)
       /\ \A i \in 1..Len(StagesOf(m)) : StagesOf(m)[i].stage = StageOrder[i]
  /\ \A i \in 1..Len(stages) : stages[i].stage # "lexer" => ~stages[i].err
  /\ \A i \in 1..Len(stages) :
       stages[i].stage \in {"evaluator", "statement"} =>
         profile[modules[stages[i].module].path] = "none"

\* an imported module was evaluated, and then the diagnostic of the main
\* module ended the run after its resolver and before its evaluator
C13_Witness ==
  /\ status = "exit"
  /\ err
  /\ \E i \in 1..Len(stages) : stages[i].stage = "evaluator"
  /\ Len(StagesOf(1)) = 3

\* C14: when the resolver pass is over, the side table the evaluator reads
\* holds every entry the resolver recorded, and no read of a variable that
\* the resolver resolved is reported as "Undefined variable".
C14_SideTable ==
  /\ phase \in {"running", "done"} => resolved_vars = resolve(script).resolved
  /\ \A n \in trace.undefined : resolve(script).resolved[n] = NoDepth

\* the lexer is at the first character of a token
Scanning == lexer.state = "scanning" /\ ~is_eof(lexer)
\* the character after the one the lexer is at, "" at the end of the text
FollowingChar ==
  IF lexer.curr_pos + 2 <= Len(lexer.text) THEN lexer.text[lexer.curr_pos + 2] ELSE ""
\* the lexer is at an unknown character, at a `!` that no `=` follows, or
\* at a quote that no quote follows
AtLexicalError ==
  /\ Scanning
  /\ \/ peek(lexer) = "$"
     \/ peek(lexer) = "!" /\ FollowingChar # "="
     \/ /\ peek(lexer) = "\""
        /\ \A i \in (lexer.curr_pos + 2)..Len(lexer.text) : lexer.text[i] # "\""
\* the list get_tokens returned ends in EOF and holds no other EOF
EndsInEOF ==
  /\ Len(lexer.tokens) > 0
  /\ \A i \in 1..Len(lexer.tokens) : (lexer.tokens[i].type = "EOF") <=> (i = Len(lexer.tokens))

\* C15: for every input text get_tokens returns a token list whose last
\* token, and only its last, is EOF: no exception leaves it, every iteration
\* of its loop reads at least one character, and at an unknown character, an
\* unterminated string or a `!` without `=`, wherever it stands, the error is
\* reported and the scan goes on.
C15_LexerTotality ==
  /\ [](/\ lexer.state # "raised"
        /\ lexer.state = "returned" => EndsInEOF /\ is_eof(lexer))
  /\ [][/\ Scanning => lexer'.curr_pos > lexer.curr_pos
        /\ AtLexicalError => /\ Len(lexer'.errors) = Len(lexer.errors) + 1
                              /\ lexer'.state = "scanning"]_vars

\* how many of the first k tokens have the type
CountOf(type, k) == Cardinality({i \in 1..k : lexer.tokens[i].type = type})

\* C16: in the token list of get_tokens no prefix holds more DEDENT than
\* INDENT tokens (the difference is the height of the indent stack), and when
\* get_tokens returns the two numbers are equal and the stack is empty.
C16_BalancedIndentation ==
  /\ \A k \in 0..Len(lexer.tokens) : CountOf("DEDENT", k) <= CountOf("INDENT", k)
  /\ Len(lexer.indent_stack)
       = CountOf("INDENT", Len(lexer.tokens)) - CountOf("DEDENT", Len(lexer.tokens))
       \/ lexer.state = "returned"
  /\ lexer.state = "returned" =>
       /\ CountOf("DEDENT", Len(lexer.tokens)) = CountOf("INDENT", Len(lexer.tokens))
       /\ lexer.indent_stack = <<>>

\* two nested blocks were opened, and both were closed at the end of the text
C16_Witness ==
  /\ lexer.state = "returned"
  /\ lexer.errors = <<>>
  /\ CountOf("INDENT", Len(lexer.tokens)) = 2
  /\ Len(lexer.tokens) >= 3
  /\ lexer.tokens[Len(lexer.tokens) - 1].type = "DEDENT"
  /\ lexer.tokens[Len(lexer.tokens) - 2].type = "DEDENT"

\* Lines of a text.  LineEnd is the position of the first newline character
\* at or after position i (counted from 1), LineBegin the first position of
\* the line that the newline character at position i ends.
LineEnd(t, i) ==
  IF \E j \in i..Len(t) : t[j] = "\n"
  THEN CHOOSE j \in i..Len(t) : t[j] = "\n" /\ \A k \in i..(j - 1) : t[k] # "\n"
  ELSE Len(t) + 1
LineBegin(t, i) ==
  IF \E j \in 1..(i - 1) : t[j] = "\n"
  THEN 1 + (CHOOSE j \in 1..(i - 1) : t[j] = "\n" /\ \A k \in (j + 1)..(i - 1) : t[k] # "\n")
  ELSE 1
\* the indentation column of a line: its leading spaces
Column(l) ==
  IF \E i \in 1..Len(l) : l[i] # " "
  THEN (CHOOSE i \in 1..Len(l) : l[i] # " " /\ \A k \in 1..(i - 1) : l[k] = " ") - 1
  ELSE Len(l)
Blank(l) == \A i \in 1..Len(l) : isspace(l[i])
CommentOnly(l) ==
  /\ ~Blank(l)
  /\ l[CHOOSE i \in 1..Len(l) : ~isspace(l[i]) /\ \A k \in 1..(i - 1) : isspace(l[k])] = "#"
\* a line that is no logical line
Quiet(l) == Blank(l) \/ CommentOnly(l)

\* the lexer is at the newline character that ends a line
AtNewline == Scanning /\ peek(lexer) = "\n"
\* the line which that newline character ends, and the line after it
EndingLine ==
  SubSeq(lexer.text, LineBegin(lexer.text, lexer.curr_pos + 1), lexer.curr_pos)
FollowingLine ==
  SubSeq(lexer.text, lexer.curr_pos + 2, LineEnd(lexer.text, lexer.curr_pos + 2) - 1)
\* the line the lexer is in
CurrentLine ==
  SubSeq(lexer.text, LineBegin(lexer.text, lexer.curr_pos + 1),
         LineEnd(lexer.text, lexer.curr_pos + 1) - 1)
\* the step adds a token of the type
Emitted(type) ==
  \E i \in (Len(lexer.tokens) + 1)..Len(lexer'.tokens) : lexer'.tokens[i].type = type
SameIndentation ==
  /\ lexer'.indent_pos = lexer.indent_pos
  /\ lexer'.indent_stack = lexer.indent_stack

\* C17: a blank or comment-only line emits no NEWLINE, INDENT or DEDENT and
\* leaves the indentation level and the indent stack as they are: not at
\* the newline before it, where its indentation is read, not at its own
\* characters, and no NEWLINE at the newline that ends it.
C17_QuietLines ==
  [][/\ AtNewline /\ Quiet(FollowingLine) =>
          ~Emitted("INDENT") /\ ~Emitted("DEDENT") /\ SameIndentation
     /\ AtNewline /\ Quiet(EndingLine) => ~Emitted("NEWLINE")
     /\ Scanning /\ ~AtNewline /\ Quiet(CurrentLine) =>
          /\ ~Emitted("NEWLINE") /\ ~Emitted("INDENT") /\ ~Emitted("DEDENT")
          /\ SameIndentation]_vars

\* a block was opened on line 1 and its first line is line 3, at two
\* spaces: line 2, a blank or comment-only line of another indentation,
\* emitted nothing and left the block open
C17_Witness ==
  /\ lexer.state = "returned"
  /\ lexer.errors = <<>>
  /\ Len(lexer.tokens) >= 4
  /\ lexer.tokens[3].type = "NEWLINE" /\ lexer.tokens[3].line = 1
  /\ lexer.tokens[4].type = "INDENT" /\ lexer.tokens[4].line = 3
  /\ lexer.tokens[4].value = 2
  /\ Column(SubSeq(lexer.text, 4, LineEnd(lexer.text, 4) - 1)) = 1

\* the last line that is neither blank nor a comment among the lines that
\* end at the newline character at position nl or before it; <<>> if none
RECURSIVE LastLogicalLine(_, _)
LastLogicalLine(t, nl) ==
  IF nl <= 0 THEN <<>>
  ELSE IF ~Quiet(SubSeq(t, LineBegin(t, nl), nl - 1))
       THEN SubSeq(t, LineBegin(t, nl), nl - 1)
       ELSE LastLogicalLine(t, LineBegin(t, nl) - 1)
EndsWithColon(l) == Len(l) > 0 /\ l[Len(l)] = ":"
\* the logical line before the line whose indentation is being read
AfterColon == EndsWithColon(LastLogicalLine(lexer.text, lexer.curr_pos + 1))
\* the step reports a lexical error
Reported == Len(lexer'.errors) > Len(lexer.errors)

\* C18: when the indentation of a line that is neither blank nor a comment
\* is read, an error is reported if the line is more indented than the
\* current level and the logical line before it does not end with a colon
\* (then no INDENT is emitted and the indent stack stays), and if the
\* logical line before it ends with a colon and the line is not more
\* indented than the current level.
C18_IndentErrors ==
  [][AtNewline /\ ~Quiet(FollowingLine) =>
       /\ Column(FollowingLine) > lexer.indent_pos /\ ~AfterColon =>
            /\ Reported
            /\ ~Emitted("INDENT")
            /\ lexer'.indent_stack = lexer.indent_stack
       /\ AfterColon /\ Column(FollowingLine) <= lexer.indent_pos => Reported]_vars

\* the indentation levels that enclose the current one: 0 and the columns
\* on the indent stack
EnclosingLevels ==
  {0} \cup {lexer.indent_stack[i] : i \in 1..Len(lexer.indent_stack)}

\* C19: when the indentation of a line that is neither blank nor a comment
\* is read, the line is less indented than the current level and its column
\* is none of the enclosing levels, a lexical error is reported.
C19_DedentToUnknownColumn ==
  [][/\ AtNewline
     /\ ~Quiet(FollowingLine)
     /\ Column(FollowingLine) < lexer.indent_pos
     /\ Column(FollowingLine) \notin EnclosingLevels
     => Reported]_vars

\* where _synchronize has to stop after an exception at the token at
\* position p: behind the first NEWLINE from p on, or before the first
\* statement keyword or EOF after p; at p if p is EOF
SyncPoint(tokens, p) ==
  IF tokens[p].type = "EOF" THEN p
  ELSE CHOOSE q \in (p + 1)..Len(tokens) :
         /\ \/ tokens[q - 1].type = "NEWLINE"
            \/ tokens[q].type \in SyncTypes \cup {"EOF"}
         /\ \A k \in (p + 1)..(q - 1) :
              /\ tokens[k - 1].type # "NEWLINE"
              /\ tokens[k].type \notin SyncTypes \cup {"EOF"}
\* one iteration of the loop of parse()
ParsesDeclaration == parser.state = "parsing" /\ ~parser_is_eof(parser) /\ parser' # parser
\* the declaration parsed before this one ended in error recovery
AfterRecovery == Len(parser.decls) > 0 /\ parser.decls[Len(parser.decls)].recovered

ChainStatements ==
  {n \in NodeIds : AST[n].k = "AssStmt" /\ AST[AST[n].kids[1]].k = "Assign"}
\* the tokens from the lookahead on are IDENTIFIER <- IDENTIFIER <- literal NEWLINE
ChainAhead ==
  /\ parser.lookahead + 5 <= Len(parser.tokens)
  /\ [i \in 0..5 |-> parser.tokens[parser.lookahead + i].type]
       \in {[i \in 0..5 |-> <<"IDENTIFIER", "ASSIGNMENT", "IDENTIFIER", "ASSIGNMENT", c,
                               "NEWLINE">>[i + 1]] :
              c \in {"NUMBER", "STRING", "NIL", "TRUE", "FALSE"}}
\* what `a <- b <- c` at position l is parsed as
ChainTree(l) ==
  Tree("AssStmt", l, <<Tree("Assign", l + 2, <<Tree("Literal", l + 4, <<>>, FALSE)>>, FALSE)>>,
       FALSE)
\* the value of the drawn literal that node c stands for
DrawnValue(c) == IF c \in DrawnA THEN inA ELSE inB
\* the evaluator's observations after the statement a <- b <- c at node n
ChainEvaluated(n, m, c) ==
  /\ phase = "running"
  /\ trace.evaluated[c] = 1
  /\ trace.stores = <<[n |-> m, name |-> AST[m].name, val |-> DrawnValue(c)],
                      [n |-> n, name |-> AST[n].name, val |-> DrawnValue(c)]>>
  /\ envs[environment].bindings[AST[m].name] = DrawnValue(c)
  /\ envs[environment].bindings[AST[n].name] = DrawnValue(c)

\* C21: the parser makes of `a <- b <- c` the statement that assigns to a
\* the assignment expression of c to b; when the evaluator has executed such
\* a statement, c was evaluated once, its value was stored first in b and
\* then in a (the value of the assignment expression is the value of c),
\* and both variables hold it.
C21_ChainedAssignment ==
  /\ [](\A n \in ChainStatements :
          (ip > 0 /\ phase \in {"running", "exit"} /\ script[ip] = n)
            => ChainEvaluated(n, AST[n].kids[1], AST[AST[n].kids[1]].kids[1]))
  /\ [][ParsesDeclaration /\ ChainAhead
          => parser'.stmts[Len(parser'.stmts)] = ChainTree(parser.lookahead)]_vars

\* the text `x <- y <- A`, `x <- y <- B` was parsed into two chained
\* assignments and the evaluator has executed both; the second one assigned
\* to the bindings the first one made, at the depth the resolver recorded
C21_Witness ==
  /\ script = ChainScript
  /\ ip = 2
  /\ phase = "running"
  /\ parser.state = "returned"
  /\ parser.stmts[2] = ChainTree(7)
  /\ resolved_vars[305] = 0
  /\ resolved_vars[306] = 0
  /\ inA # inB
  /\ envs[environment].bindings["x"] = inB
  /\ envs[environment].bindings["y"] = inB

RECURSIVE LoopExits(_, _)
\* the yamero and kowai statements of a tree: the position of the keyword
\* and whether the statement is inside the body of a while statement
LoopExits(tree, inLoop) ==
  IF tree.node \in {"BreakStmt", "ContinueStmt"}
  THEN {[tok |-> tree.tok, inLoop |-> inLoop]}
  ELSE UNION {LoopExits(tree.kids[i], inLoop \/ (tree.node = "WhileStmt" /\ i = 2)) :
                i \in 1..Len(tree.kids)}
\* the ones of the statements parsed so far
ParsedLoopExits == UNION {LoopExits(parser.stmts[i], FALSE) : i \in 1..Len(parser.stmts)}
LoopMessages == {"Can only use yamero in a loop body.", "Can only use kowai in a loop body."}
\* the parser reported the keyword at position tok as used outside a loop
LoopErrorAt(tok) ==
  \E i \in 1..Len(parser.errors) :
    parser.errors[i].at = tok /\ parser.errors[i].message \in LoopMessages

\* C22: a yamero or kowai statement of the tree is reported exactly when no
\* while body encloses it; loop_count is 0 between the declarations of the
\* top level, and every declaration, at any depth, ends with the loop_count
\* it began with, which is never negative (a while statement is parsed
\* inside one declaration, whether it fails or not).
C22_LoopExits ==
  /\ \A x \in ParsedLoopExits : LoopErrorAt(x.tok) <=> ~x.inLoop
  /\ parser.loop_count = 0
  /\ \A i \in 1..Len(parser.decls) :
       parser.decls[i].loops >= 0 /\ parser.decls[i].loops_end = parser.decls[i].loops

\* parse() returned a while statement whose body holds a while statement
\* that failed to parse and, after it, a yamero that was not reported
C22_Witness ==
  /\ parser.state = "returned"
  /\ \E x \in ParsedLoopExits : x.inLoop /\ ~LoopErrorAt(x.tok)
  /\ \E i \in 1..Len(parser.decls) :
       /\ parser.decls[i].recovered
       /\ parser.decls[i].loops = 1
       /\ parser.tokens[parser.decls[i].start].type = "WHILE"

RECURSIVE Lists(_)
\* the parameter lists and the argument lists of a tree, with their lengths
Lists(tree) ==
  (IF tree.node = "params" THEN {[kind |-> "params", n |-> Len(tree.kids)]}
   ELSE IF tree.node = "CallExpr" THEN {[kind |-> "args", n |-> Len(tree.kids) - 1]}
   ELSE {})
  \cup UNION {Lists(tree.kids[i]) : i \in 1..Len(tree.kids)}
ParsedLists == UNION {Lists(parser.stmts[i]) : i \in 1..Len(parser.stmts)}
LimitMessage ==
  [params |-> "Maximum number of parameters is 127.", args |-> "Max number of arguments is 127."]
LimitReported(kind) ==
  \E i \in 1..Len(parser.errors) : parser.errors[i].message = LimitMessage[kind]
\* the number of entries of the list in the tokens (the drawn lists with a
\* comma hold one list)
EntriesInTokens ==
  Cardinality({i \in 1..Len(parser.tokens) : parser.tokens[i].type = "COMMA"}) + 1

\* C23: when parse() has returned, the limit diagnostic of parameter lists
\* (of argument lists) was reported exactly when a parameter list (an
\* argument list) of the tree has more than 127 entries; parsing a list
\* with commas ends in no error recovery and the node holds every entry.
C23_ListLimit ==
  parser.state = "returned" =>
    /\ \A kind \in {"params", "args"} :
         LimitReported(kind) <=> \E l \in ParsedLists : l.kind = kind /\ l.n > MaxEntries
    /\ EntriesInTokens > 1 =>
         /\ \A i \in 1..Len(parser.decls) : ~parser.decls[i].recovered
         /\ \E l \in ParsedLists : l.n = EntriesInTokens
(***************************************************************************)
(* Scoping stated on the tree, independently of the resolver's stack of    *)
(* scopes.                                                                 *)
(***************************************************************************)
IsTop(n) == ~\E m \in NodeIds : \E i \in 1..Len(AST[m].kids) : AST[m].kids[i] = n
Parent(n) == CHOOSE m \in NodeIds : \E i \in 1..Len(AST[m].kids) : AST[m].kids[i] = n
IndexIn(m, n) == CHOOSE i \in 1..Len(AST[m].kids) : AST[m].kids[i] = n

RECURSIVE TopStmt(_)
TopStmt(n) == IF IsTop(n) THEN n ELSE TopStmt(Parent(n))

RECURSIVE Inside(_)
\* the nodes of the tree below n, n included
Inside(n) ==
  IF n = 0 THEN {}
  ELSE {n} \cup UNION {Inside(AST[n].kids[i]) : i \in 1..Len(AST[n].kids)}

\* the number of scopes a node opens around its children
ScopesOf(m) ==
  IF AST[m].k \in {"BlockStmt", "FunctionDecl"} THEN 1
  ELSE IF AST[m].k = "ClassDecl" THEN 1 ELSE 0

\* the assignment a statement is and the assignment its initializer is
Targets(s) ==
  IF AST[s].k # "AssStmt" THEN {}
  ELSE {s} \cup {e \in {AST[s].kids[1]} : AST[e].k = "Assign"}

\* a top-level statement before the one holding n binds name
GloballyBound(name, n) ==
  \E i, j \in 1..Len(script) :
     /\ i < j
     /\ script[j] = TopStmt(n)
     /\ \/ AST[script[i]].k \in {"FunctionDecl", "ClassDecl"} /\ AST[script[i]].name = name
        \/ \E t \in Targets(script[i]) : AST[t].name = name

RECURSIVE LocalDepth(_, _, _)
\* the number of scopes between statement n and the innermost enclosing
\* local scope that binds name before n: NoDepth when there is none
LocalDepth(name, n, k) ==
  IF IsTop(n) THEN NoDepth
  ELSE LET m == Parent(n)
           binds(s) ==
             /\ AST[s].k = "AssStmt"
             /\ AST[s].name = name
             /\ \/ AST[s].flag
                \/ LocalDepth(name, s, 0) = NoDepth /\ ~GloballyBound(name, s)
       IN  IF /\ AST[m].k \in {"BlockStmt", "FunctionDecl"}
              /\ \/ AST[m].k = "FunctionDecl" /\ (\E i \in 1..Len(AST[m].params) : AST[m].params[i] = name)
                 \/ \E j \in 1..(IndexIn(m, n) - 1) : binds(AST[m].kids[j])
           THEN k
           ELSE LocalDepth(name, m, k + ScopesOf(m))

RECURSIVE ScopesAround(_)
ScopesAround(n) == IF IsTop(n) THEN 0 ELSE ScopesOf(Parent(n)) + ScopesAround(Parent(n))

\* the binding a read of name just before statement n refers to
VisibleDepth(name, n) ==
  IF LocalDepth(name, n, 0) # NoDepth THEN LocalDepth(name, n, 0)
  ELSE IF GloballyBound(name, n) THEN ScopesAround(n)
  ELSE NoDepth

InScript == UNION {Inside(script[i]) : i \in 1..Len(script)}
BakaNodes == {n \in InScript : AST[n].k = "AssStmt" /\ AST[n].flag}

\* C24: `baka x <- e` is reported exactly when x is bound in an enclosing
\* local scope (block, function or method, parameters included) before the
\* statement; a global or missing binding of x is no error; and an x read in
\* the initializer e refers to the binding visible before the statement.
C24_BakaShadowing ==
  script \in ResolverScripts =>
    \A n \in BakaNodes :
       /\ n \in resolve(script).reported <=> LocalDepth(AST[n].name, n, 0) # NoDepth
       /\ AST[AST[n].kids[1]].k = "VarAccess" =>
            resolve(script).resolved[AST[n].kids[1]] =
              VisibleDepth(AST[AST[n].kids[1]].name, n)
       /\ (phase = "exit" /\ n \in resolve(script).reported) => err

C24_Witness ==
  /\ script = <<400, 440>>
  /\ phase = "exit"
  /\ err
  /\ resolve(script).reported = {446}
  /\ resolve(script).resolved[447] = 1


(***************************************************************************)
(* Bindings and reads, stated on the tree.  A binding is a scope (the node *)
(* that opens it, 0 for the globals) and a name.                           *)
(***************************************************************************)
StmtKinds ==
  {"AssStmt", "ExprStmt", "BlockStmt", "IfStmt", "WhileStmt", "BreakStmt",
   "ContinueStmt", "ReturnStmt", "FunctionDecl", "ClassDecl"}

RECURSIVE StmtOf(_)
\* the statement an expression belongs to
StmtOf(n) == IF AST[n].k \in StmtKinds THEN n ELSE StmtOf(Parent(n))

RECURSIVE ScopeUp(_, _)
\* the node that opens the d-th scope around statement n, counted outwards
ScopeUp(n, d) ==
  IF IsTop(n) THEN 0
  ELSE IF ScopesOf(Parent(n)) = 0 THEN ScopeUp(Parent(n), d)
  ELSE IF d = 0 THEN Parent(n)
  ELSE ScopeUp(Parent(n), d - 1)

\* the bindings the variables and parameters of the script create
Bindings ==
     {[scope |-> ScopeUp(StmtOf(t), 0), name |-> AST[t].name] :
        t \in {u \in InScript : /\ AST[u].k \in {"AssStmt", "Assign"}
                               /\ \/ AST[u].flag
                                  \/ VisibleDepth(AST[u].name, StmtOf(u)) = NoDepth}}
  \cup UNION {{[scope |-> f, name |-> AST[f].params[i]] : i \in 1..Len(AST[f].params)} :
                f \in {u \in InScript : AST[u].k = "FunctionDecl"}}

\* the bindings some variable access reads
ReadBindings ==
  {[scope |-> ScopeUp(StmtOf(e), VisibleDepth(AST[e].name, StmtOf(e))),
    name |-> AST[e].name] :
     e \in {u \in InScript : /\ AST[u].k = "VarAccess"
                            /\ VisibleDepth(AST[u].name, StmtOf(u)) # NoDepth}}

\* the scripts in which no name is bound twice in one scope
UnusedScripts == {p \in ResolverScripts : \A i \in 1..Len(p) : p[i] \in UnusedMenu}

Unread(name) == Cardinality({b \in Bindings \ ReadBindings : b.name = name})

CallableNames ==
  {AST[n].name : n \in {u \in InScript : AST[u].k \in {"FunctionDecl", "ClassDecl"}}}
    \cup {"print", "input"}

\* C25: an assignment to a bound variable, as a statement or nested in an
\* expression, is no read of it: the bindings of variables and parameters
\* that no variable access reads are exactly the ones reported as unused,
\* the warning is reported when there is one, and the names of functions,
\* classes and host functions are never reported.
C25_UnusedBindings ==
  script \in UnusedScripts =>
    /\ \A name \in VarNames \ CallableNames :
         resolve(script).unused_vars[name] = Unread(name)
    /\ \A name \in CallableNames \ {b.name : b \in Bindings} :
         resolve(script).unused_vars[name] = 0
    /\ (\E i \in 1..Len(resolve(script).errors) :
           resolve(script).errors[i] = "unused variables")
         <=> \E name \in VarNames : Unread(name) > 0

\* the context a return statement is judged in
ReturnContext(n) ==
  LET around == {f \in InScript : AST[f].k = "FunctionDecl" /\ n \in Inside(f) /\ f # n} IN
  IF around = {} THEN "OTHER"
  ELSE LET f == CHOOSE g \in around : \A h \in around : g \in Inside(h) IN
       IF IsTop(f) \/ AST[Parent(f)].k # "ClassDecl" THEN "FUNCTION"
       ELSE IF AST[f].name = "shison" THEN "CONSTRUCTOR"
       ELSE "METHOD"

ReturnNodes == {n \in InScript : AST[n].k = "ReturnStmt"}

\* C26: a return statement is reported exactly when it is outside every
\* function, method and constructor body, or when it returns a value inside
\* a constructor; a bare return in a constructor and any return in a
\* function or method is accepted; a return after a nested declaration is
\* judged by the enclosing context.
C26_ReturnContext ==
  script \in ResolverScripts =>
    \A n \in ReturnNodes :
       n \in resolve(script).reported <=>
         \/ ReturnContext(n) = "OTHER"
         \/ ReturnContext(n) = "CONSTRUCTOR" /\ AST[n].kids[1] # 0


\* the Waifu-representation as the language defines it: baito for nil, an
\* integer-valued number without its ".0", the string form of anything else
WaifuRepr(value) ==
  IF value.t = "nil" THEN "baito"
  ELSE IF value.t = "num"
       THEN (IF value.v < 0 THEN "-" \o NatStr(0 - value.v) ELSE NatStr(value.v))
       ELSE PyStr(Machine, value)

\* C27: after `v <- l + r`, when l or r is a string (the left one only, the
\* right one only, or both) v holds the concatenation of the two
\* Waifu-representations; when neither is a string and both are numbers v
\* holds the sum; in every other case a runtime error ended the program.
C27_PlusConcatenates ==
  (script = PlusScript /\ ip = 1) =>
    IF inA.t = "str" \/ inB.t = "str"
    THEN /\ phase = "running"
         /\ envs[environment].bindings["v"] = Str(WaifuRepr(inA) \o WaifuRepr(inB))
    ELSE IF inA.t = "num" /\ inB.t = "num"
    THEN /\ phase = "running"
         /\ envs[environment].bindings["v"] = Num(inA.v + inB.v)
    ELSE /\ phase = "exit"
         /\ envs[environment].bindings["v"] = Unbound

\* C28: what print(value) writes is baito exactly when the value is nil, an
\* integer-valued number without ".0", and the string form of any other
\* value (false, true, the empty string, other strings).
C28_WaifuRepresentation ==
  (script = PrintScript /\ ip = 1 /\ phase = "running") =>
    /\ out = <<WaifuRepr(inA)>>
    /\ out[1] = "baito" <=> inA = Nil


\* C29: every block and every function call the evaluator has left, on
\* whatever path (normal completion, break, continue, return, a runtime
\* error or a host exception raised inside), left the current frame as it
\* was before the block started; and a top-level statement leaves the
\* evaluator's current frame unchanged.
C29_FrameRestored ==
  /\ [](\A b \in trace.blocks : b.after = b.before)
  /\ [][ExecStmt => environment' = environment]_vars

C29_Witness ==
  /\ script = CallScript
  /\ ip = 2
  /\ phase = "exit"
  /\ \E b \in trace.blocks :
        /\ b.sig = "exit"
        /\ envs[b.env].kind = "call"
        /\ b.env # b.before
        /\ b.after = b.before
  /\ environment = 1


\* the modules of the suspended and running evaluations, outermost first
Evaluating == [i \in 1..Len(calls) |-> calls[i].module]

\* C30: every module on the evaluation stack is registered under its name
\* and no two modules on the stack have the same name; the stack holds the
\* modules under evaluation, so that an evaluation that returns leaves the
\* stack as it found it (empty when the main module is done); import_module
\* returns only modules that are off the stack and completely evaluated.
C30_ModuleStack ==
  /\ [](\A i \in 1..Len(module_stack) :
          /\ loaded_modules[modules[module_stack[i]].name] = module_stack[i]
          /\ \A j \in 1..Len(module_stack) :
               modules[module_stack[i]].name = modules[module_stack[j]].name => i = j)
  /\ [](status \in {"running", "done"} => module_stack = Evaluating)
  /\ [][Evaluated => module_stack' = SubSeq(Evaluating, 1, Len(calls) - 1)]_vars
  /\ [][\A r \in returned' \ returned :
          /\ modules'[r.module].completed
          /\ \A i \in 1..Len(module_stack') : module_stack'[i] # r.module]_vars

\* a module was returned to an importer that is itself an imported module
\* under evaluation
C30_Witness ==
  /\ status = "running"
  /\ Len(module_stack) = 2
  /\ \E r \in returned : r.importer = module_stack[2] /\ modules[r.module].completed


====
